---- MODULE Spec2Model ----
(***************************************************************************)
(* Verification model of the miu2d sprite codecs: the ASF and MPC          *)
(* converters to MSF, the MSF encoder and decoders, and the round-trip     *)
(* verifiers.                                                              *)
(*                                                                         *)
(* Representation.                                                         *)
(*   - A file or blob (&[u8], Vec<u8>) is a sequence of 0..255; the code's *)
(*     0-based data[off] is At(data, off).                                 *)
(*   - An RGBA buffer (Vec<u8> of 4 bytes per pixel, zero-initialised) is  *)
(*     a record [n |-> pixel count, px |-> map]; px maps the pixel numbers *)
(*     whose four bytes are not all zero to <<r, g, b, a>>.  Two buffers   *)
(*     are equal byte for byte iff the records are equal.                  *)
(*   - usize is 64 bits in the command-line tools, and release builds wrap *)
(*     on overflow.  A usize is represented by its two's-complement        *)
(*     reading: a negative number k stands for 2^64 + k.  Sums and         *)
(*     products are then ordinary integer arithmetic; comparisons of       *)
(*     values that can be negative go through ULe/ULt.                     *)
(*   - Option<T> is [tag |-> "Some", val |-> v] or None; a panic of the    *)
(*     function (slice or index out of range) is the value Panic.          *)
(***************************************************************************)
EXTENDS Integers, Sequences, FiniteSets, Bags, TLC

VARIABLES
    tool,     \* which tool chain runs on the file: "asf", "mpc", "msf", "map",
              \* "engine" (header and frame-by-frame decode of an MSF), or
              \* "big" (the MPC converter's offset loop on a large file)
    pc,       \* the next step of the tool chain
    full,     \* bytes of the source file as it was written (empty for "big")
    src,      \* bytes of the file being processed: full, or full cut short
    msf,      \* what the converter / encoder returned for src
    msfFull,  \* what the converter returned for full
    msfE,     \* what the engine's encode_msf returned
    tidx,     \* the transparent index the MPC converter adopted for src
    srcDec,   \* what decoding src directly returned
    msfDec,   \* what decoding msf returned
    hdr,      \* what parse_msf_header returned for src (an MSF file)
    canvas,   \* what decode_msf_frames returned for src
    canvas2,  \* what decode_msf_frames returned for the re-encoded file
    indiv,    \* what decode_msf_individual_frames returned for src
    vrfy,     \* what the verifier's decode_msf_to_rgba returned for src
    cat,      \* the MPC converter's "concatenate frame data" loop, by sizes
    vrfy1,    \* what decode_msf_to_rgba of the asf2msf verifier returned for src
    engHdr,   \* what the engine's parse_asf_header / parse_mpc_header returned
    engDec,   \* what the engine's decode_asf_frames / decode_mpc_frames returned
    oldMap,   \* what parse_old_map returned for src (a MAP file)
    mmf,      \* what convert_map_to_mmf returned
    run,      \* how the command-line tool run over the file ended
    pf,       \* one find_path call of the engine's PathFinder, step by step
    sh,       \* the engine's SpatialHash and what was last asked of it
    walk      \* the engine decoders' walk over the extension chunks of src

\* the results of the converter chains, and of the MSF reader chain
convVars == <<msf, msfFull, tidx, srcDec, msfDec>>
readVars == <<hdr, canvas, canvas2, indiv, vrfy>>
\* the results of the other readers of the same files
extVars == <<vrfy1, engHdr, engDec, oldMap, mmf, run, pf, sh, walk>>
vars == <<tool, pc, full, src, cat, msfE, convVars, readVars, extVars>>
\* everything that belongs to a file run through a tool chain
fileVars ==
    <<tool, pc, full, src, cat, msfE, convVars, readVars, vrfy1, engHdr, engDec, oldMap,
      mmf, run>>

(***************************************************************************)
(* Values                                                                  *)
(***************************************************************************)
Some(v) == [tag |-> "Some", val |-> v]
None == [tag |-> "None", val |-> <<>>]
Panic == [tag |-> "Panic", val |-> <<>>]
NotRun == [tag |-> "NotRun", val |-> <<>>]

IsSome(o) == o.tag = "Some"

SetMin(S) == CHOOSE x \in S : \A y \in S : x <= y
SetMax(S) == CHOOSE x \in S : \A y \in S : x >= y
Min2(a, b) == IF a <= b THEN a ELSE b
Max2(a, b) == IF a >= b THEN a ELSE b

At(data, off) == data[off + 1]
\* data[a..b]
Slice(data, a, b) == SubSeq(data, a + 1, b)
\* data[a..]
SliceFrom(data, a) == SubSeq(data, a + 1, Len(data))

RECURSIVE Concat(_)
\* the concatenation of the sequences of ss, halving to keep the nesting flat
Concat(ss) ==
    IF Len(ss) = 0 THEN <<>>
    ELSE IF Len(ss) = 1 THEN ss[1]
    ELSE Concat(SubSeq(ss, 1, Len(ss) \div 2))
             \o Concat(SubSeq(ss, Len(ss) \div 2 + 1, Len(ss)))

Zeros(k) == [i \in 1..k |-> 0]

\* unsigned comparison of usize values in their two's-complement reading
ULe(a, b) == IF (a < 0) = (b < 0) THEN a <= b ELSE b < 0
ULt(a, b) == IF (a < 0) = (b < 0) THEN a < b ELSE b < 0

\* integer casts (`as u8`, `as u16`, `as i16`)
AsU8(v) == v % 256
AsU16(v) == v % 65536
AsI16(v) == IF v % 65536 >= 32768 THEN (v % 65536) - 65536 ELSE v % 65536

\* to_le_bytes
U16Le(v) == <<v % 256, (v \div 256) % 256>>
I16Le(v) == U16Le(AsU16(v))
U32Le(v) == <<v % 256, (v \div 256) % 256, (v \div 65536) % 256, (v \div 16777216) % 256>>
\* \div rounds down and % is non-negative, so this is two's complement
I32Le(v) == U32Le(v)

\* u16::from_le_bytes / i16::from_le_bytes / u32::from_le_bytes at data[off..]
U16At(data, off) == At(data, off) + 256 * At(data, off + 1)
I16At(data, off) == AsI16(U16At(data, off))
U32At(data, off) ==
    At(data, off) + 256 * At(data, off + 1) + 65536 * At(data, off + 2)
        + 16777216 * At(data, off + 3)

\* get_u32_le: 0 when the four bytes are not all inside the file
get_u32_le(data, offset) ==
    IF offset + 4 > Len(data) THEN 0 ELSE U32At(data, offset)

\* get_i32_le: 0 when the four bytes are not all inside the file
get_i32_le(data, offset) ==
    IF offset + 4 > Len(data) THEN 0
    ELSE At(data, offset) + 256 * At(data, offset + 1) + 65536 * At(data, offset + 2)
           + 16777216 * (IF At(data, offset + 3) >= 128 THEN At(data, offset + 3) - 256
                         ELSE At(data, offset + 3))

(***************************************************************************)
(* RGBA buffers                                                            *)
(***************************************************************************)
ZeroPx == <<0, 0, 0, 0>>
EmptyMap == [i \in {} |-> ZeroPx]
\* vec![0u8; n * 4]
ZeroBuf(n) == [n |-> n, px |-> EmptyMap]
PxAt(buf, i) == IF i \in DOMAIN buf.px THEN buf.px[i] ELSE ZeroPx
\* drop the all-zero pixels of a map (they are the buffer's initial bytes)
Canon(m) == [i \in {j \in DOMAIN m : m[j] # ZeroPx} |-> m[i]]

(***************************************************************************)
(* ASF run-length decoding (decode_asf_rle_frame; the converter, the       *)
(* engine's encoder helper and the verifier carry the same function)       *)
(***************************************************************************)
\* the inner `for _ in 0..pixel_count` loop with k iterations left;
\* st = [off |-> data_offset, idx |-> pixel_idx (a byte index), px |-> pixels]
RECURSIVE asf_rle_run(_, _, _, _, _, _)
asf_rle_run(data, palette, pixel_alpha, k, max_pixels, st) ==
    IF k = 0 \/ st.idx >= max_pixels THEN st
    ELSE IF pixel_alpha = 0
    THEN \* k iterations of `pixel_idx += 4`, cut short at max_pixels
         [st EXCEPT !.idx = Min2(@ + 4 * k, max_pixels)]
    ELSE IF st.off < Len(data)
    THEN LET color_index == At(data, st.off)
             px2 == IF color_index < Len(palette)
                    THEN ((st.idx \div 4) :> <<palette[color_index + 1][1],
                                               palette[color_index + 1][2],
                                               palette[color_index + 1][3],
                                               pixel_alpha>>) @@ st.px
                    ELSE st.px
         IN asf_rle_run(data, palette, pixel_alpha, k - 1, max_pixels,
                        [off |-> st.off + 1, idx |-> st.idx + 4, px |-> px2])
    ELSE asf_rle_run(data, palette, pixel_alpha, k - 1, max_pixels, st)

\* the outer `while` loop over run headers
RECURSIVE asf_rle_loop(_, _, _, _, _)
asf_rle_loop(data, palette, data_end, max_pixels, st) ==
    IF st.off < data_end /\ st.off + 1 < Len(data) /\ st.idx < max_pixels
    THEN asf_rle_loop(data, palette, data_end, max_pixels,
            asf_rle_run(data, palette, At(data, st.off + 1), At(data, st.off),
                        max_pixels, [st EXCEPT !.off = @ + 2]))
    ELSE st

decode_asf_rle_frame(data, palette, offset, length, width, height, pixels) ==
    [n |-> pixels.n,
     px |-> asf_rle_loop(data, palette, offset + length, width * height * 4,
                         [off |-> offset, idx |-> 0, px |-> pixels.px]).px]

\* data_offset when the loop has ended: every increment of data_offset is a
\* byte read (two for a run header, one for a colour index), so the bytes
\* the frame's decoding read are those from offset up to this one
asf_rle_end(data, palette, offset, length, width, height) ==
    asf_rle_loop(data, palette, offset + length, width * height * 4,
                 [off |-> offset, idx |-> 0, px |-> EmptyMap]).off

(***************************************************************************)
(* Tight bounding box, crop and palette quantisation                       *)
(***************************************************************************)
\* the pixels the double loop finds with alpha > 0
BBoxContent(pixels, width, height) ==
    {i \in DOMAIN pixels.px : i < width * height /\ i < pixels.n /\ pixels.px[i][4] > 0}

\* returns <<offset_x: i16, offset_y: i16, width: u16, height: u16>>
compute_tight_bbox(pixels, width, height) ==
    LET content == BBoxContent(pixels, width, height)
    IN IF content = {} THEN <<0, 0, 0, 0>>
       ELSE LET min_x == SetMin({i % width : i \in content})
                max_x == SetMax({i % width : i \in content})
                min_y == SetMin({i \div width : i \in content})
                max_y == SetMax({i \div width : i \in content})
            IN <<AsI16(min_x), AsI16(min_y),
                 AsU16(max_x - min_x + 1), AsU16(max_y - min_y + 1)>>

\* rows the loop `for y in oy..oy + h` visits (none when oy + h wraps below oy)
ExtractRows(oy, h) == IF ULe(oy, oy + h) THEN h ELSE 0
\* row r is copied (end <= pixels.len()); otherwise it is zero-filled
ExtractRowCopied(pixels, full_width, ox, oy, w, r) ==
    ULe(((oy + r) * full_width + ox) * 4 + w * 4, pixels.n * 4)
\* the copy &pixels[start..end] panics when start > end
extract_bbox_panics(pixels, full_width, ox, oy, w, h) ==
    \E r \in 0..(ExtractRows(oy, h) - 1) :
        /\ ExtractRowCopied(pixels, full_width, ox, oy, w, r)
        /\ ~ULe(((oy + r) * full_width + ox) * 4, ((oy + r) * full_width + ox) * 4 + w * 4)

extract_bbox_pixels(pixels, full_width, ox, oy, w, h) ==
    LET rows == ExtractRows(oy, h)
        Src(j) == ((oy + (j \div w)) * full_width + ox) + (j % w)
        kept == {j \in 0..(rows * w - 1) :
                    /\ ExtractRowCopied(pixels, full_width, ox, oy, w, j \div w)
                    /\ Src(j) \in DOMAIN pixels.px}
    IN [n |-> rows * w, px |-> [j \in kept |-> pixels.px[Src(j)]]]

\* the palette search of rgba_to_indexed / rgba_to_indexed_alpha: entries j..,
\* best so far (best_idx, best_dist); best_dist = -1 stands for u32::MAX
RECURSIVE nearest_from(_, _, _, _, _, _, _)
nearest_from(palette, r, g, b, j, best_idx, best_dist) ==
    IF j >= Len(palette) THEN best_idx
    ELSE LET e == palette[j + 1]
             dr == IF r >= e[1] THEN r - e[1] ELSE e[1] - r
             dg == IF g >= e[2] THEN g - e[2] ELSE e[2] - g
             db == IF b >= e[3] THEN b - e[3] ELSE e[3] - b
             dist == dr + dg + db
         IN IF best_dist = -1 \/ dist < best_dist
            THEN IF dist = 0 THEN AsU8(j)
                 ELSE nearest_from(palette, r, g, b, j + 1, AsU8(j), dist)
            ELSE nearest_from(palette, r, g, b, j + 1, best_idx, best_dist)

nearest_index(palette, p) == nearest_from(palette, p[1], p[2], p[3], 0, 0, -1)

\* [palette_index, alpha] per pixel
rgba_to_indexed_alpha(pixels, palette) ==
    [k \in 1..(2 * pixels.n) |->
        LET p == PxAt(pixels, (k - 1) \div 2)
        IN IF p[4] = 0 THEN 0
           ELSE IF k % 2 = 1 THEN nearest_index(palette, p) ELSE p[4]]

\* palette_index per pixel
rgba_to_indexed(pixels, palette) ==
    [k \in 1..pixels.n |->
        LET p == PxAt(pixels, k - 1)
        IN IF p[4] = 0 THEN 0 ELSE nearest_index(palette, p)]

\* the four bytes of every pixel, in order
rgba_bytes(pixels) ==
    [k \in 1..(4 * pixels.n) |-> PxAt(pixels, (k - 1) \div 4)[((k - 1) % 4) + 1]]


(***************************************************************************)
(* zstd (external crate): a lossless codec.  Modelled as a framed,         *)
(* byte-wise transformed copy, so that a blob read without decompression   *)
(* differs from the blob that was compressed.                              *)
(***************************************************************************)
ZstdMagic == <<40, 181, 47, 253>>
zstd_compress(blob) == ZstdMagic \o [i \in 1..Len(blob) |-> 255 - blob[i]]
zstd_decompress(data) ==
    IF Len(data) >= 4 /\ SubSeq(data, 1, 4) = ZstdMagic
    THEN Some([i \in 1..(Len(data) - 4) |-> 255 - data[i + 4]])
    ELSE None

(***************************************************************************)
(* MSF container layout                                                    *)
(***************************************************************************)
MSF1 == <<77, 83, 70, 49>>       \* b"MSF1"
MSF2 == <<77, 83, 70, 50>>       \* b"MSF2"
CHUNK_END == <<69, 78, 68, 0>>   \* b"END\0"
FRAME_ENTRY_SIZE == 16

EmptyEntry ==
    [offset_x |-> 0, offset_y |-> 0, width |-> 0, height |-> 0,
     data_offset |-> 0, data_length |-> 0]

RECURSIVE SumLen(_, _)
\* total length of the first k sequences of raw
SumLen(raw, k) == IF k = 0 THEN 0 ELSE SumLen(raw, k - 1) + Len(raw[k])

\* the "concatenate frame data" loop: entry i gets the blob length so far
\* and its own length (`as u32`; the blobs built here stay far below 2^32
\* bytes, see concat_step for a file that does not)
assign_offsets(frame_entries, raw_frame_data) ==
    [i \in 1..Len(frame_entries) |->
        [frame_entries[i] EXCEPT !.data_offset = SumLen(raw_frame_data, i - 1),
                                 !.data_length = Len(raw_frame_data[i])]]

EntryBytes(e) ==
    I16Le(e.offset_x) \o I16Le(e.offset_y) \o U16Le(e.width) \o U16Le(e.height)
        \o U32Le(e.data_offset) \o U32Le(e.data_length)

\* the output buffer every encoder builds: preamble, header, pixel format,
\* palette, frame table, end sentinel, blob
msf_bytes(magic, version, flags, hd, pixel_format, palette, frame_entries, blob) ==
    magic \o U16Le(version) \o U16Le(flags)
        \o U16Le(hd.width) \o U16Le(hd.height) \o U16Le(hd.frame_count)
        \o <<hd.directions, hd.fps>> \o I16Le(hd.left) \o I16Le(hd.bottom)
        \o Zeros(4)
        \o <<pixel_format>> \o U16Le(AsU16(Len(palette))) \o <<0>>
        \o Concat([i \in 1..Len(palette) |-> palette[i]])
        \o Concat([i \in 1..Len(frame_entries) |-> EntryBytes(frame_entries[i])])
        \o CHUNK_END \o U32Le(0)
        \o blob

(***************************************************************************)
(* ASF -> MSF converter (asf2msf)                                          *)
(***************************************************************************)
interval_to_fps(interval) ==
    IF interval > 0 THEN AsU8(Min2(1000 \div interval, 255)) ELSE 15

\* the header fields read at offsets 16..44
asf_fields(data) ==
    [width |-> AsU16(get_i32_le(data, 16)),
     height |-> AsU16(get_i32_le(data, 20)),
     frame_count |-> AsU16(get_i32_le(data, 24)),
     directions |-> AsU8(get_i32_le(data, 28)),
     color_count |-> get_i32_le(data, 32),
     fps |-> interval_to_fps(AsU16(get_i32_le(data, 36))),
     left |-> AsI16(get_i32_le(data, 40)),
     bottom |-> AsI16(get_i32_le(data, 44))]

\* `offset` after the header fields (16 + 8 * 4) and the 16 reserved bytes
ASF_PALETTE_START == 16 + 8 * 4 + 16

\* the palette loop: BGRA -> RGBA with alpha 255, stopping at the end of file
asf_palette(data, color_count) ==
    [i \in 1..Min2(color_count, (Len(data) - ASF_PALETTE_START) \div 4) |->
        <<At(data, ASF_PALETTE_START + 4 * (i - 1) + 2),
          At(data, ASF_PALETTE_START + 4 * (i - 1) + 1),
          At(data, ASF_PALETTE_START + 4 * (i - 1)), 255>>]

\* the frame index loop: (offset, length) pairs, stopping at the end of file
asf_frame_index(data, offset, frame_count) ==
    [i \in 1..Min2(frame_count, (Len(data) - offset) \div 8) |->
        [offset |-> get_i32_le(data, offset + 8 * (i - 1)),
         length |-> get_i32_le(data, offset + 8 * (i - 1) + 4)]]

\* phase 1 of the converter for frame i (0-based): the canvas-sized RGBA
asf_frame_canvas(data, w, h, palette, index, i) ==
    IF i < Len(index)
    THEN decode_asf_rle_frame(data, palette, index[i + 1].offset, index[i + 1].length,
                              w, h, ZeroBuf(w * h))
    ELSE ZeroBuf(w * h)

\* phases 1-2 for one canvas: bbox, crop, Indexed8Alpha8
asf_frame_encode(pixels, w, h, palette) ==
    LET bb == compute_tight_bbox(pixels, w, h)
    IN IF bb[3] = 0 \/ bb[4] = 0
       THEN [entry |-> EmptyEntry, raw |-> <<>>, panic |-> FALSE]
       ELSE [entry |-> [offset_x |-> bb[1], offset_y |-> bb[2], width |-> bb[3],
                        height |-> bb[4], data_offset |-> 0, data_length |-> 0],
             raw |-> rgba_to_indexed_alpha(
                         extract_bbox_pixels(pixels, w, bb[1], bb[2], bb[3], bb[4]),
                         palette),
             panic |-> extract_bbox_panics(pixels, w, bb[1], bb[2], bb[3], bb[4])]

convert_asf_to_msf(asf_data) ==
    IF Len(asf_data) < 80 THEN None
    ELSE IF SubSeq(asf_data, 1, 7) # <<65, 83, 70, 32, 49, 46, 48>> THEN None
    ELSE LET hd == asf_fields(asf_data)
         IN IF hd.color_count < 0 THEN Panic   \* Vec::with_capacity overflows
            ELSE
            LET palette == asf_palette(asf_data, hd.color_count)
                index == asf_frame_index(asf_data, ASF_PALETTE_START + 4 * Len(palette), hd.frame_count)
                enc == [i \in 1..hd.frame_count |->
                           asf_frame_encode(
                               asf_frame_canvas(asf_data, hd.width, hd.height,
                                                palette, index, i - 1),
                               hd.width, hd.height, palette)]
                raw == [i \in 1..hd.frame_count |-> enc[i].raw]
                entries == assign_offsets([i \in 1..hd.frame_count |-> enc[i].entry], raw)
            IN IF \E i \in 1..hd.frame_count : enc[i].panic THEN Panic
               ELSE Some(msf_bytes(MSF2, 2, 1, hd, 2, palette, entries,
                                   zstd_compress(Concat(raw))))


(***************************************************************************)
(* Round-trip verifier for ASF (converter/src/bin/verify.rs)               *)
(***************************************************************************)
Decoded(w, h, n, frames) == [width |-> w, height |-> h, frame_count |-> n, frames |-> frames]

\* parse_asf returns None for a short file or a wrong signature
parse_asf_ok(data) ==
    Len(data) >= 80 /\ SubSeq(data, 1, 7) = <<65, 83, 70, 32, 49, 46, 48>>

decode_asf_to_rgba(data) ==
    IF ~parse_asf_ok(data) THEN None
    ELSE LET hd == asf_fields(data)
         IN IF hd.color_count < 0 THEN Panic   \* Vec::with_capacity overflows
            ELSE
            LET palette == asf_palette(data, hd.color_count)
                index == asf_frame_index(data, ASF_PALETTE_START + 4 * Len(palette), hd.frame_count)
            IN \* info.frame_offsets[i] is indexed for every i < frame_count
               IF Len(index) < hd.frame_count THEN Panic
               ELSE Some(Decoded(hd.width, hd.height, hd.frame_count,
                        [i \in 1..hd.frame_count |->
                            decode_asf_rle_frame(data, palette, index[i].offset,
                                                 index[i].length, hd.width, hd.height,
                                                 ZeroBuf(hd.width * hd.height))]))

\* the frame table entry at ft_off
EntryAt(data, ft_off) ==
    [offset_x |-> I16At(data, ft_off), offset_y |-> I16At(data, ft_off + 2),
     width |-> U16At(data, ft_off + 4), height |-> U16At(data, ft_off + 6),
     data_offset |-> U32At(data, ft_off + 8), data_length |-> U32At(data, ft_off + 12)]

\* the "skip extension chunks" loop: the offset just after the end sentinel,
\* or -1 when the file ends first
RECURSIVE skip_chunks(_, _)
skip_chunks(data, ext_off) ==
    IF ext_off + 8 > Len(data) THEN -1
    ELSE IF Slice(data, ext_off, ext_off + 4) = CHUNK_END THEN ext_off + 8
    ELSE IF At(data, ext_off + 7) >= 128 \/ U32At(data, ext_off + 4) > Len(data) THEN -1
    ELSE skip_chunks(data, ext_off + 8 + U32At(data, ext_off + 4))

\* the verifier's fixed 256-entry palette, zero where the file has no entry
msf_palette256(data, palette_start, palette_size) ==
    [i \in 0..255 |->
        IF i < Min2(palette_size, 256) /\ palette_start + i * 4 + 4 <= Len(data)
        THEN <<At(data, palette_start + i * 4), At(data, palette_start + i * 4 + 1),
               At(data, palette_start + i * 4 + 2), At(data, palette_start + i * 4 + 3)>>
        ELSE ZeroPx]

\* one frame of decode_msf_to_rgba: the source pixels j = y * fw + x that are
\* written, and the canvas pixel each goes to
v_dst(entry, canvas_w, j) ==
    (entry.offset_y + (j \div entry.width)) * canvas_w + entry.offset_x + (j % entry.width)
v_written(entry, canvas_w, n, raw) ==
    {j \in 0..(entry.width * entry.height - 1) :
        /\ ~(2 * j + 1 >= Len(raw))
        /\ At(raw, 2 * j + 1) # 0
        /\ ULe(v_dst(entry, canvas_w, j) * 4 + 4, n * 4)}

v_frame(entry, canvas_w, canvas_h, palette, blob) ==
    LET n == canvas_w * canvas_h
    IN IF entry.width > 0 /\ entry.height > 0
          /\ entry.data_offset + entry.data_length <= Len(blob)
       THEN LET raw == Slice(blob, entry.data_offset, entry.data_offset + entry.data_length)
                J == v_written(entry, canvas_w, n, raw)
                D == {v_dst(entry, canvas_w, j) : j \in J}
            IN IF \E d \in D : d < 0 THEN Panic     \* pixels[dst] far out of range
               ELSE Some([n |-> n,
                          px |-> [d \in D |->
                              LET j == SetMax({k \in J : v_dst(entry, canvas_w, k) = d})
                                  c == palette[At(raw, 2 * j)]
                              IN <<c[1], c[2], c[3], At(raw, 2 * j + 1)>>]])
       ELSE Some(ZeroBuf(n))

decode_msf_to_rgba(data) ==
    IF Len(data) < 28 \/ SubSeq(data, 1, 4) # MSF2 THEN None
    ELSE LET flags == U16At(data, 6)
             canvas_w == U16At(data, 8)
             canvas_h == U16At(data, 10)
             frame_count == U16At(data, 12)
             pixel_format == At(data, 24)
             palette_size == U16At(data, 25)
             frame_table_start == 28 + palette_size * 4
         IN IF pixel_format # 2 THEN None
            ELSE IF frame_table_start + frame_count * 16 > Len(data) THEN None
            ELSE LET ext_off == skip_chunks(data, frame_table_start + frame_count * 16)
                 IN IF ext_off = -1 THEN None
                    ELSE LET blob == IF (flags % 2) # 0
                                     THEN zstd_decompress(SliceFrom(data, ext_off))
                                     ELSE Some(SliceFrom(data, ext_off))
                         IN IF ~IsSome(blob) THEN None
                            ELSE LET palette == msf_palette256(data, 28, palette_size)
                                     fr == [i \in 1..frame_count |->
                                              v_frame(EntryAt(data, frame_table_start + 16 * (i - 1)),
                                                      canvas_w, canvas_h, palette, blob.val)]
                                 IN IF \E i \in 1..frame_count : fr[i].tag = "Panic" THEN Panic
                                    ELSE Some(Decoded(canvas_w, canvas_h, frame_count,
                                                      [i \in 1..frame_count |-> fr[i].val]))


(***************************************************************************)
(* Round-trip verifier of the asf2msf package (asf2msf/src/bin/verify.rs)  *)
(***************************************************************************)
\* the `match pixel_format` of its decode_msf_to_rgba: 2 and 1 are the
\* indexed formats, every other value takes the `_` arm and is copied row
\* by row as RGBA.  Source pixel j = y * fw + x of one frame:
a_row(entry, canvas_w, j) == v_dst(entry, canvas_w, j - (j % entry.width))
a_passes(entry, canvas_w, n, palette, blob, pixel_format, j) ==
    LET off == entry.data_offset
    IN IF pixel_format = 2
       THEN /\ ~(off + 2 * j + 1 >= Len(blob))
            /\ At(blob, off + 2 * j + 1) # 0
            /\ ULe(v_dst(entry, canvas_w, j) * 4 + 4, n * 4)
       ELSE IF pixel_format = 1
       THEN /\ ~(off + j >= Len(blob))
            /\ ULe(v_dst(entry, canvas_w, j) * 4 + 4, n * 4)
            /\ palette[At(blob, off + j)][4] > 0
       ELSE /\ off + (j \div entry.width) * entry.width * 4 + entry.width * 4 <= Len(blob)
            /\ ULe(a_row(entry, canvas_w, j) * 4 + entry.width * 4, n * 4)
a_value(palette, blob, pixel_format, off, j) ==
    IF pixel_format = 2
    THEN LET c == palette[At(blob, off + 2 * j)]
         IN <<c[1], c[2], c[3], At(blob, off + 2 * j + 1)>>
    ELSE IF pixel_format = 1 THEN palette[At(blob, off + j)]
    ELSE Slice(blob, off + 4 * j, off + 4 * j + 4)

a_frame(entry, canvas_w, canvas_h, palette, blob, pixel_format) ==
    LET n == canvas_w * canvas_h
    IN IF entry.width = 0 \/ entry.height = 0 THEN Some(ZeroBuf(n))
       ELSE LET J == {j \in 0..(entry.width * entry.height - 1) :
                         a_passes(entry, canvas_w, n, palette, blob, pixel_format, j)}
                D == {v_dst(entry, canvas_w, j) : j \in J}
            IN IF \E d \in D : d < 0 THEN Panic     \* the write is out of range
               ELSE Some([n |-> n,
                          px |-> Canon([d \in D |->
                              a_value(palette, blob, pixel_format, entry.data_offset,
                                      SetMax({k \in J : v_dst(entry, canvas_w, k) = d}))])])

asf2msf_decode_msf_to_rgba(msf_data) ==
    IF Len(msf_data) < 28 THEN None
    ELSE IF SubSeq(msf_data, 1, 4) # <<77, 83, 70, 49>> THEN None
    ELSE LET flags == U16At(msf_data, 6)
             canvas_width == U16At(msf_data, 8)
             canvas_height == U16At(msf_data, 10)
             frame_count == U16At(msf_data, 12)
             pixel_format == At(msf_data, 24)
             palette_size == U16At(msf_data, 25)
             frame_table_start == 28 + palette_size * 4
         IN IF frame_table_start + frame_count * 16 > Len(msf_data) THEN None
            ELSE LET ext_off == skip_chunks(msf_data, frame_table_start + frame_count * 16)
                 IN IF ext_off = -1 THEN None
                    ELSE LET blob == IF (flags % 2) # 0
                                     THEN zstd_decompress(SliceFrom(msf_data, ext_off))
                                     ELSE Some(SliceFrom(msf_data, ext_off))
                         IN IF ~IsSome(blob) THEN None
                            ELSE LET palette == msf_palette256(msf_data, 28, palette_size)
                                     fr == [i \in 1..frame_count |->
                                              a_frame(EntryAt(msf_data, frame_table_start
                                                                          + 16 * (i - 1)),
                                                      canvas_width, canvas_height, palette,
                                                      blob.val, pixel_format)]
                                 IN IF \E i \in 1..frame_count : fr[i].tag = "Panic" THEN Panic
                                    ELSE Some(Decoded(canvas_width, canvas_height, frame_count,
                                                      [i \in 1..frame_count |-> fr[i].val]))

(***************************************************************************)
(* Engine encoder (engine-wasm/src/msf_codec.rs)                           *)
(***************************************************************************)
Rgba8 == 0
Indexed8 == 1
Indexed8Alpha8 == 2

\* phase 1 of encode_msf for one frame
encode_frame(pixels, cw, ch, pixel_format, palette) ==
    LET bb == compute_tight_bbox(pixels, cw, ch)
    IN IF bb[3] = 0 \/ bb[4] = 0
       THEN [entry |-> EmptyEntry, raw |-> <<>>, panic |-> FALSE]
       ELSE LET cropped == extract_bbox_pixels(pixels, cw, bb[1], bb[2], bb[3], bb[4])
            IN [entry |-> [offset_x |-> bb[1], offset_y |-> bb[2], width |-> bb[3],
                           height |-> bb[4], data_offset |-> 0, data_length |-> 0],
                raw |-> IF pixel_format = Indexed8 THEN rgba_to_indexed(cropped, palette)
                        ELSE IF pixel_format = Indexed8Alpha8
                        THEN rgba_to_indexed_alpha(cropped, palette)
                        ELSE rgba_bytes(cropped),
                panic |-> extract_bbox_panics(pixels, cw, bb[1], bb[2], bb[3], bb[4])]

\* input = [hd, pixel_format, palette, frame_pixels]; the Vec<u8> result is
\* wrapped in Some so that a panic can be told apart
encode_msf(input) ==
    LET frame_count == input.hd.frame_count
    IN IF Len(input.frame_pixels) < frame_count THEN Panic   \* input.frame_pixels[i]
       ELSE
       LET enc == [i \in 1..frame_count |->
                      encode_frame(input.frame_pixels[i], input.hd.width, input.hd.height,
                                   input.pixel_format, input.palette)]
           raw == [i \in 1..frame_count |-> enc[i].raw]
           entries == assign_offsets([i \in 1..frame_count |-> enc[i].entry], raw)
       IN IF \E i \in 1..frame_count : enc[i].panic THEN Panic
          ELSE Some(msf_bytes(MSF1, 1, 0, input.hd, input.pixel_format, input.palette,
                              entries, Concat(raw)))

asf_to_msf_input(asf_data) ==
    IF Len(asf_data) < 80 THEN None
    ELSE IF SubSeq(asf_data, 1, 7) # <<65, 83, 70, 32, 49, 46, 48>> THEN None
    ELSE LET hd == asf_fields(asf_data)
         IN IF hd.color_count < 0 THEN Panic   \* Vec::with_capacity overflows
            ELSE
            LET palette == asf_palette(asf_data, hd.color_count)
                index == asf_frame_index(asf_data, ASF_PALETTE_START + 4 * Len(palette),
                                         hd.frame_count)
            IN Some([hd |-> hd, pixel_format |-> Indexed8Alpha8, palette |-> palette,
                     frame_pixels |-> [i \in 1..hd.frame_count |->
                         asf_frame_canvas(asf_data, hd.width, hd.height, palette, index, i - 1)]])


(***************************************************************************)
(* MPC -> MSF converter (converter/src/bin/mpc2msf.rs)                     *)
(***************************************************************************)
MPC_SIG == <<77, 80, 67, 32, 70, 105, 108, 101, 32, 86, 101, 114>>   \* "MPC File Ver"
MPC_PALETTE_START == 128
MaxFrameSide == 2048

\* the RLE loop shared by find_transparent_index_mpc, decode_mpc_rle_to_indexed
\* and the verifier: st = [off |-> data_offset, idx |-> pixel_idx,
\* wr |-> pixel number -> colour index byte of the opaque pixels so far].
\* A byte above 0x80 skips byte - 0x80 pixels; otherwise `count` colour bytes
\* follow, copied until the frame is full or the file ends.
RECURSIVE mpc_rle_walk(_, _, _, _)
mpc_rle_walk(data, rle_end, total, st) ==
    IF st.off < rle_end /\ st.off < Len(data) /\ st.idx < total
    THEN LET byte == At(data, st.off)
         IN IF byte > 128
            THEN mpc_rle_walk(data, rle_end, total,
                              [st EXCEPT !.off = @ + 1, !.idx = @ + (byte - 128)])
            ELSE LET n == Min2(byte, Min2(total - st.idx, Len(data) - (st.off + 1)))
                 IN mpc_rle_walk(data, rle_end, total,
                        [off |-> st.off + 1 + n,
                         idx |-> st.idx + n,
                         wr |-> [p \in st.idx..(st.idx + n - 1) |->
                                    At(data, st.off + 1 + (p - st.idx))] @@ st.wr])
    ELSE st

\* the opaque pixels of the frame whose header is at ds
mpc_opaque(data, ds, data_len, width, height) ==
    mpc_rle_walk(data, ds + data_len, width * height,
                 [off |-> ds + 20, idx |-> 0, wr |-> EmptyMap]).wr

decode_mpc_rle_to_indexed(data, rle_start, rle_end, width, height, transparent_idx) ==
    LET wr == mpc_rle_walk(data, rle_end, width * height,
                           [off |-> rle_start, idx |-> 0, wr |-> EmptyMap]).wr
    IN [p \in 1..(width * height) |->
           IF (p - 1) \in DOMAIN wr THEN wr[p - 1] ELSE transparent_idx]

\* the frames find_transparent_index_mpc scans: header inside the file, and
\* width and height (as usize) in 1..2048
scanned_frame(mpc_data, ds) ==
    /\ ~(ds + 12 > Len(mpc_data))
    /\ ~(get_u32_le(mpc_data, ds + 4) = 0 \/ get_u32_le(mpc_data, ds + 8) = 0
         \/ get_u32_le(mpc_data, ds + 4) > MaxFrameSide
         \/ get_u32_le(mpc_data, ds + 8) > MaxFrameSide)

\* used[]: the colour index bytes the scan marks
mpc_used(mpc_data, frame_data_start, data_offsets) ==
    UNION {LET ds == frame_data_start + data_offsets[i]
           IN IF scanned_frame(mpc_data, ds)
              THEN LET wr == mpc_opaque(mpc_data, ds, get_u32_le(mpc_data, ds),
                                        get_u32_le(mpc_data, ds + 4),
                                        get_u32_le(mpc_data, ds + 8))
                   IN {wr[p] : p \in DOMAIN wr}
              ELSE {} : i \in 1..Len(data_offsets)}

\* a variant that returns the largest unused index instead of the smallest
find_transparent_index_largest(mpc_data, frame_data_start, data_offsets) ==
    LET used == mpc_used(mpc_data, frame_data_start, data_offsets)
    IN IF \E i \in 0..255 : i \notin used
       THEN SetMax({i \in 0..255 : i \notin used})
       ELSE 0

find_transparent_index_mpc(mpc_data, frame_data_start, data_offsets) ==
    LET used == mpc_used(mpc_data, frame_data_start, data_offsets)
    IN IF \E i \in 0..255 : i \notin used
       THEN SetMin({i \in 0..255 : i \notin used})
       ELSE 0   \* fallback

\* the header fields at 64.. and the derived anchor and fps
mpc_fields(mpc_data) ==
    LET global_width == AsU16(get_u32_le(mpc_data, 64 + 4))
        global_height == AsU16(get_u32_le(mpc_data, 64 + 8))
        raw_bottom == get_i32_le(mpc_data, 64 + 28)
    IN [width |-> global_width,
        height |-> global_height,
        frame_count |-> AsU16(get_u32_le(mpc_data, 64 + 12)),
        directions |-> AsU8(get_u32_le(mpc_data, 64 + 16)),
        color_count |-> get_u32_le(mpc_data, 64 + 20),
        fps |-> interval_to_fps(AsU16(get_u32_le(mpc_data, 64 + 24))),
        left |-> AsI16(global_width \div 2),
        bottom |-> IF global_height >= 16 THEN AsI16(global_height - 16 - raw_bottom)
                   ELSE AsI16(16 - global_height - raw_bottom)]

\* the palette loop: BGRA -> RGBA with alpha 255, stopping at the end of file
mpc_palette(mpc_data, color_count) ==
    [i \in 1..Min2(color_count, (Len(mpc_data) - MPC_PALETTE_START) \div 4) |->
        <<At(mpc_data, MPC_PALETTE_START + 4 * (i - 1) + 2),
          At(mpc_data, MPC_PALETTE_START + 4 * (i - 1) + 1),
          At(mpc_data, MPC_PALETTE_START + 4 * (i - 1)), 255>>]

\* the frame offset loop, stopping at the end of file
mpc_data_offsets(mpc_data, offsets_start, frame_count) ==
    [i \in 1..Min2(frame_count, Max2(0, (Len(mpc_data) - offsets_start) \div 4)) |->
        get_u32_le(mpc_data, offsets_start + 4 * (i - 1))]

\* the palette after the transparent index is adopted
mpc_adopt(palette, transparent_idx) ==
    IF transparent_idx < Len(palette)
    THEN [palette EXCEPT ![transparent_idx + 1][4] = 0]
    ELSE [i \in 1..(transparent_idx + 1) |->
             IF i <= Len(palette) THEN palette[i]
             ELSE IF i = transparent_idx + 1 THEN <<0, 0, 0, 0>>
             ELSE <<0, 0, 0, 255>>]

\* the "process frames" loop body for frame i (0-based)
mpc_frame_encode(mpc_data, frame_data_start, data_offsets, i, transparent_idx) ==
    IF i >= Len(data_offsets) THEN [entry |-> EmptyEntry, raw |-> <<>>]
    ELSE LET ds == frame_data_start + data_offsets[i + 1]
         IN IF ds + 12 > Len(mpc_data) THEN [entry |-> EmptyEntry, raw |-> <<>>]
            ELSE LET data_len == get_u32_le(mpc_data, ds)
                     width == AsU16(get_u32_le(mpc_data, ds + 4))
                     height == AsU16(get_u32_le(mpc_data, ds + 8))
                 IN IF width = 0 \/ height = 0 \/ width > MaxFrameSide
                       \/ height > MaxFrameSide
                    THEN [entry |-> EmptyEntry, raw |-> <<>>]
                    ELSE [entry |-> [EmptyEntry EXCEPT !.width = width, !.height = height],
                          raw |-> decode_mpc_rle_to_indexed(mpc_data, ds + 20, ds + data_len,
                                                            width, height, transparent_idx)]

\* the transparent index convert_mpc_to_msf adopts for the file
mpc_transparent_idx(mpc_data) ==
    LET hd == mpc_fields(mpc_data)
        offsets_start == MPC_PALETTE_START + hd.color_count * 4
    IN find_transparent_index_mpc(mpc_data, offsets_start + hd.frame_count * 4,
                                  mpc_data_offsets(mpc_data, offsets_start, hd.frame_count))

convert_mpc_to_msf(mpc_data) ==
    IF Len(mpc_data) < 160 THEN None
    ELSE IF SubSeq(mpc_data, 1, 12) # MPC_SIG THEN None
    ELSE LET hd == mpc_fields(mpc_data)
             offsets_start == MPC_PALETTE_START + hd.color_count * 4
             data_offsets == mpc_data_offsets(mpc_data, offsets_start, hd.frame_count)
             frame_data_start == offsets_start + hd.frame_count * 4
             transparent_idx == find_transparent_index_mpc(mpc_data, frame_data_start,
                                                           data_offsets)
             palette == mpc_adopt(mpc_palette(mpc_data, hd.color_count), transparent_idx)
             enc == [i \in 1..hd.frame_count |->
                        mpc_frame_encode(mpc_data, frame_data_start, data_offsets, i - 1,
                                         transparent_idx)]
             raw == [i \in 1..hd.frame_count |-> enc[i].raw]
             entries == assign_offsets([i \in 1..hd.frame_count |-> enc[i].entry], raw)
         IN Some(msf_bytes(MSF2, 2, 1, hd, Indexed8, palette, entries,
                           zstd_compress(Concat(raw))))


(***************************************************************************)
(* Round-trip verifier for MPC (asf2msf/src/bin/verify_mpc.rs)             *)
(***************************************************************************)
\* one decoded frame: (width, height, RGBA buffer)
Tile(w, h, px) == [width |-> w, height |-> h, pixels |-> px]
\* the 1 x 1 transparent placeholder of an empty frame
EmptyTile == Tile(1, 1, ZeroBuf(1))

\* the verifier's fixed 256-entry palette, zero where the file has no entry
mpc_palette256(data, color_count) ==
    [i \in 0..255 |->
        IF i < Min2(color_count, 256) /\ MPC_PALETTE_START + i * 4 + 4 <= Len(data)
        THEN <<At(data, MPC_PALETTE_START + i * 4 + 2),
               At(data, MPC_PALETTE_START + i * 4 + 1),
               At(data, MPC_PALETTE_START + i * 4), 255>>
        ELSE ZeroPx]

\* frame at ds: no upper limit on width and height here
v_mpc_frame(data, palette, ds) ==
    IF ds + 12 > Len(data) THEN EmptyTile
    ELSE LET data_len == get_u32_le(data, ds)
             width == AsU16(get_u32_le(data, ds + 4))
             height == AsU16(get_u32_le(data, ds + 8))
         IN IF width = 0 \/ height = 0 THEN EmptyTile
            ELSE LET wr == mpc_rle_walk(data, Min2(ds + data_len, Len(data)), width * height,
                                        [off |-> ds + 20, idx |-> 0, wr |-> EmptyMap]).wr
                 IN Tile(width, height,
                         [n |-> width * height,
                          px |-> Canon([p \in DOMAIN wr |-> palette[wr[p]]])])

decode_mpc_to_rgba(data) ==
    IF Len(data) < 160 THEN None
    ELSE IF SubSeq(data, 1, 12) # MPC_SIG THEN None
    ELSE LET frame_count == get_u32_le(data, 64 + 12)
             color_count == get_u32_le(data, 64 + 20)
             palette == mpc_palette256(data, color_count)
             offsets_start == MPC_PALETTE_START + color_count * 4
             frame_data_start == offsets_start + frame_count * 4
         IN Some([i \in 1..frame_count |->
                    \* a missing offset reads as 0 (get_u32_le past the end)
                    v_mpc_frame(data, palette,
                                frame_data_start
                                    + get_u32_le(data, offsets_start + 4 * (i - 1)))])

\* a / b for two u32 values given as i32 (a negative number is the u32
\* value 2^32 more), b # 0; the quotient is given the same way
u32_div(a, b) ==
    IF b < 0 THEN (IF ULe(b, a) THEN 1 ELSE 0)
    ELSE IF a >= 0 THEN a \div b
    ELSE IF b = 1 THEN a
    ELSE LET h == (a + 2147483647) + 1            \* a + 2^32 = h + 2^31
             r2 == (2147483647 % b) + 1            \* 2^31 = q2 * b + r2
             q2 == (2147483647 \div b) + (IF r2 = b THEN 1 ELSE 0)
             r == IF r2 = b THEN 0 ELSE r2
         IN (h \div b) + q2 + (IF (h % b) >= b - r THEN 1 ELSE 0)

(***************************************************************************)
(* Engine ASF decoder (engine-wasm/src/asf_decoder.rs)                     *)
(***************************************************************************)
\* the header fields are i32 values cast to u32: a negative i32 stands for
\* the u32 value 2^32 more, and frames_per_direction is computed in u32
\* (the files here hold no negative field except directions, and left and
\* bottom, which stay i32)
asf_header(data) ==
         LET frame_count == get_i32_le(data, 24)
             directions == get_i32_le(data, 28)
         IN      [width |-> get_i32_le(data, 16),
                  height |-> get_i32_le(data, 20),
                  frame_count |-> frame_count,
                  directions |-> directions,
                  color_count |-> get_i32_le(data, 32),
                  interval |-> get_i32_le(data, 36),
                  left |-> get_i32_le(data, 40),
                  bottom |-> get_i32_le(data, 44),
                  frames_per_direction |->
                      IF directions # 0
                      THEN LET q == u32_div(frame_count, directions)
                           IN IF q = 0 THEN 1 ELSE q
                      ELSE IF frame_count = 0 THEN 1 ELSE frame_count]

\* parse_asf_header without its signature test
parse_asf_header_any_signature(data) ==
    IF Len(data) < 80 THEN None ELSE Some(asf_header(data))

parse_asf_header(data) ==
    IF Len(data) < 80 THEN None
    ELSE IF SubSeq(data, 1, 7) # <<65, 83, 70, 32, 49, 46, 48>> THEN None
    ELSE Some(asf_header(data))

\* how many palette entries the palette loop reads: color_count as usize,
\* at most 256, stopping at the end of the file
asf_colors_read(data, color_count) ==
    Min2(IF color_count < 0 THEN 256 ELSE Min2(color_count, 256),
         Max2(0, (Len(data) - 64) \div 4))

\* the fixed palette of 256 entries; the entries not read stay zero
asf_palette256(data, color_count) ==
    [i \in 1..256 |->
        IF i <= asf_colors_read(data, color_count)
        THEN <<At(data, 64 + 4 * (i - 1) + 2), At(data, 64 + 4 * (i - 1) + 1),
               At(data, 64 + 4 * (i - 1)), 255>>
        ELSE ZeroPx]

\* result: the returned frame count and the canvases; None is "return 0" at
\* the length and signature tests.  frame_offsets[i] is indexed for every
\* i < frame_count, also when the index loop stopped early.  (The run loop
\* differs from the converter's only after the file has ended, where
\* neither writes a pixel.)
decode_asf_frames(data) ==
    IF Len(data) < 80 THEN None
    ELSE IF SubSeq(data, 1, 7) # <<65, 83, 70, 32, 49, 46, 48>> THEN None
    ELSE LET width == get_i32_le(data, 16)
             height == get_i32_le(data, 20)
             frame_count == get_i32_le(data, 24)
             color_count == get_i32_le(data, 32)
             palette == asf_palette256(data, color_count)
             index == asf_frame_index(data, 64 + 4 * asf_colors_read(data, color_count),
                                      frame_count)
         IN IF Len(index) < frame_count THEN Panic
            ELSE Some(Decoded(width, height, frame_count,
                     [i \in 1..frame_count |->
                         decode_asf_rle_frame(data, palette, index[i].offset,
                                              index[i].length, width, height,
                                              ZeroBuf(width * height))]))

(***************************************************************************)
(* Engine MPC decoder (engine-wasm/src/mpc_decoder.rs)                     *)
(***************************************************************************)
SHD_SIG == <<83, 72, 68, 32, 70, 105, 108, 101, 32, 86, 101, 114>>   \* "SHD File Ver"

\* (width, height) of the tile the frame at ds decodes to: 1 x 1 when the
\* frame header is cut off or a side is 0 or above 2048
mpc_tile_size(data, ds) ==
    IF ds + 12 > Len(data) THEN <<1, 1>>
    ELSE LET width == get_u32_le(data, ds + 4)
             height == get_u32_le(data, ds + 8)
         IN IF width = 0 \/ height = 0 \/ width > 2048 \/ height > 2048 THEN <<1, 1>>
            ELSE <<width, height>>

\* the `for i in 0..frame_count` loop of parse_mpc_header, which stops at the
\* first frame offset that is not whole
RECURSIVE mpc_total_pixel_bytes(_, _, _, _)
mpc_total_pixel_bytes(data, offsets_start, frame_data_start, k) ==
    IF k = 0 THEN 0
    ELSE LET size == mpc_tile_size(data, frame_data_start
                                             + get_u32_le(data, offsets_start + 4 * (k - 1)))
         IN mpc_total_pixel_bytes(data, offsets_start, frame_data_start, k - 1)
                + size[1] * size[2] * 4

\* the MpcHeader built from the fields at offset 64
mpc_header(data) ==
         LET global_width == get_u32_le(data, 64 + 4)
             global_height == get_u32_le(data, 64 + 8)
             frame_count == get_u32_le(data, 64 + 12)
             color_count == get_u32_le(data, 64 + 20)
             bottom == get_i32_le(data, 64 + 28)
             offsets_start == 128 + color_count * 4
         IN      [frames_data_length_sum |-> get_u32_le(data, 64),
                  global_width |-> global_width,
                  global_height |-> global_height,
                  frame_count |-> frame_count,
                  direction |-> get_u32_le(data, 64 + 16),
                  color_count |-> color_count,
                  interval |-> get_u32_le(data, 64 + 24),
                  bottom |-> IF global_height >= 16 THEN global_height - 16 - bottom
                             ELSE 16 - global_height - bottom,
                  left |-> global_width \div 2,
                  total_pixel_bytes |->
                      mpc_total_pixel_bytes(data, offsets_start,
                          offsets_start + frame_count * 4,
                          Len(mpc_data_offsets(data, offsets_start, frame_count)))]

\* parse_mpc_header without its signature test
parse_mpc_header_any_signature(data) ==
    IF Len(data) < 160 THEN None ELSE Some(mpc_header(data))

parse_mpc_header(data) ==
    IF Len(data) < 160 THEN None
    ELSE IF SubSeq(data, 1, 12) # MPC_SIG /\ SubSeq(data, 1, 12) # SHD_SIG THEN None
    ELSE Some(mpc_header(data))

\* decode_rle_frame into the tile of the frame at ds
mpc_tile(data, palette, ds) ==
    LET size == mpc_tile_size(data, ds)
    IN IF ds + 12 > Len(data) THEN EmptyTile
       ELSE IF size # <<get_u32_le(data, ds + 4), get_u32_le(data, ds + 8)>> THEN EmptyTile
       ELSE LET wr == mpc_rle_walk(data, ds + get_u32_le(data, ds), size[1] * size[2],
                                   [off |-> ds + 20, idx |-> 0, wr |-> EmptyMap]).wr
            IN Tile(size[1], size[2],
                    [n |-> size[1] * size[2],
                     px |-> Canon([p \in DOMAIN wr |-> palette[wr[p]]])])

\* result: the returned frame count and one tile per frame; a frame whose
\* offset is missing from the file keeps the buffers' initial zeros (size
\* 0 x 0).  None is "return 0".
decode_mpc_frames(data) ==
    LET header == parse_mpc_header(data)
    IN IF ~IsSome(header) THEN None
       ELSE LET color_count == header.val.color_count
                frame_count == header.val.frame_count
                palette == mpc_palette256(data, color_count)
                offsets_start == 128 + color_count * 4
                data_offsets == mpc_data_offsets(data, offsets_start, frame_count)
                frame_data_start == offsets_start + frame_count * 4
            IN Some([count |-> frame_count,
                     frames |-> [i \in 1..frame_count |->
                         IF i > Len(data_offsets) THEN Tile(0, 0, ZeroBuf(0))
                         ELSE mpc_tile(data, palette, frame_data_start + data_offsets[i])]])

(***************************************************************************)
(* Engine decoders (engine-wasm/src/msf_codec.rs)                          *)
(***************************************************************************)
\* a u32 read as the 32-bit usize of the wasm32 build holds it, written as a
\* signed number: values from 2^31 up appear as value - 2^32
U32AtUsize(data, off) ==
    At(data, off) + 256 * At(data, off + 1) + 65536 * At(data, off + 2)
        + 16777216 * (IF At(data, off + 3) >= 128 THEN At(data, off + 3) - 256
                      ELSE At(data, off + 3))

\* a + b in 32-bit wrapping arithmetic, for 0 <= a < 2^30
WrapAdd(a, b) ==
    IF b > 2147483647 - a THEN ((b - 1073741824) - 1073741824) + (a - 1073741824) - 1073741824
    ELSE a + b

\* the "skip extension chunks" loop of the engine decoders with ext_off a
\* 32-bit usize: the offset just after the end sentinel, -1 for "return 0",
\* -2 when a slice index is out of range, -3 when the loop comes back to an
\* offset it has been at (it never ends)
RECURSIVE skip_extension_chunks(_, _, _)
skip_extension_chunks(data, ext_off, seen) ==
    IF ext_off \in seen THEN -3
    ELSE IF ext_off < -8 THEN -1
    ELSE IF ext_off < 0 THEN -2
    ELSE IF ext_off + 8 > Len(data) THEN -1
    ELSE IF Slice(data, ext_off, ext_off + 4) = CHUNK_END THEN ext_off + 8
    ELSE skip_extension_chunks(data, WrapAdd(ext_off + 8, U32AtUsize(data, ext_off + 4)),
                               seen \cup {ext_off})

\* what the three decoders read before the pixel data; ok = FALSE is
\* "return 0" (fault "None"), a panic or a loop that never ends.  magic is
\* the MSF_MAGIC the decoder compares with.
msf_open(data, magic) ==
    IF Len(data) < 28 \/ SubSeq(data, 1, 4) # magic THEN [ok |-> FALSE, fault |-> "None"]
    ELSE LET pixel_format == At(data, 24)
             palette_size == U16At(data, 25)
             frame_count == U16At(data, 12)
             frame_table_start == 28 + palette_size * 4
         IN IF pixel_format \notin {Rgba8, Indexed8, Indexed8Alpha8}
            THEN [ok |-> FALSE, fault |-> "None"]
            ELSE IF frame_table_start + frame_count * FRAME_ENTRY_SIZE > Len(data)
            THEN [ok |-> FALSE, fault |-> "None"]
            ELSE LET ext_off == skip_extension_chunks(data, frame_table_start
                                        + frame_count * FRAME_ENTRY_SIZE, {})
                     blob == IF ext_off < 0 THEN None
                             ELSE IF (U16At(data, 6) % 2) # 0
                             THEN zstd_decompress(SliceFrom(data, ext_off))
                             ELSE Some(SliceFrom(data, ext_off))
                 IN IF ext_off = -2 THEN [ok |-> FALSE, fault |-> "Panic"]
                    ELSE IF ext_off = -3 THEN [ok |-> FALSE, fault |-> "Hang"]
                    ELSE IF ~IsSome(blob) THEN [ok |-> FALSE, fault |-> "None"]
                    ELSE [ok |-> TRUE,
                          canvas_width |-> U16At(data, 8),
                          canvas_height |-> U16At(data, 10),
                          frame_count |-> frame_count,
                          pixel_format |-> pixel_format,
                          palette |-> msf_palette256(data, 28, palette_size),
                          entries |-> [i \in 1..frame_count |->
                                          EntryAt(data, frame_table_start
                                                          + FRAME_ENTRY_SIZE * (i - 1))],
                          blob |-> blob.val]

\* n * 4 in a 32-bit word, for 0 <= n < 2^31; like U32AtUsize, values from
\* 2^31 up appear as value - 2^32
WrapMul4(n) ==
    LET m == n % 1073741824
    IN IF m >= 536870912 THEN (m - 1073741824) * 4 ELSE m * 4

\* a + b in a 32-bit word, for two words written that way
WrapAdd32(a, b) ==
    IF a >= 0 /\ b >= 0
    THEN IF b > 2147483647 - a
         THEN ((a - 1073741824) - 1073741824) + ((b - 1073741824) - 1073741824)
         ELSE a + b
    ELSE IF a < 0 /\ b < 0
    THEN IF b >= (-2147483647 - 1) - a
         THEN a + b
         ELSE ((a + 1073741824) + 1073741824) + ((b + 1073741824) + 1073741824)
    ELSE a + b

\* the bytes frame `e` takes in all_pixels: fw * fh * 4 in usize, 4 for the
\* placeholder of an empty frame
ind_bytes(e) ==
    IF e.width = 0 \/ e.height = 0 THEN 4 ELSE WrapMul4(e.width * e.height)

\* pixels frame `e` gives in individual mode, numbered from 0 within the
\* frame.  The Indexed8 and Indexed8Alpha8 loops leave at the first pixel
\* whose source lies beyond the blob; the Rgba8 copy takes
\* frame_pixel_count * 4 bytes (a usize product) when they are in the blob.
ind_frame_px(f, e) ==
    LET total == e.width * e.height
        blob_off == e.data_offset
    IN IF f.pixel_format = Indexed8
       THEN [p \in {q \in 0..(Min2(total, Len(f.blob) - blob_off) - 1) :
                       f.palette[At(f.blob, blob_off + q)][4] > 0} |->
                f.palette[At(f.blob, blob_off + p)]]
       ELSE IF f.pixel_format = Indexed8Alpha8
       THEN [p \in {q \in 0..(Min2(total, (Len(f.blob) - blob_off) \div 2) - 1) :
                       At(f.blob, blob_off + q * 2 + 1) # 0} |->
                LET c == f.palette[At(f.blob, blob_off + p * 2)]
                IN <<c[1], c[2], c[3], At(f.blob, blob_off + p * 2 + 1)>>]
       ELSE IF ind_bytes(e) >= 0 /\ blob_off + ind_bytes(e) <= Len(f.blob)
       THEN Canon([p \in 0..(ind_bytes(e) \div 4 - 1) |->
                      <<At(f.blob, blob_off + 4 * p), At(f.blob, blob_off + 4 * p + 1),
                        At(f.blob, blob_off + 4 * p + 2), At(f.blob, blob_off + 4 * p + 3)>>])
       ELSE EmptyMap

\* [width, height] and pixel count of frame i in the output
ind_size(e) == IF e.width = 0 \/ e.height = 0 THEN <<1, 1>> ELSE <<e.width, e.height>>

RECURSIVE ind_offset(_, _)
\* out_offset (in bytes) when frame i (1-based) starts: a usize that every
\* frame advances by its bytes; with i = frame_count + 1 this is also
\* total_pixel_bytes, the length of all_pixels
ind_offset(entries, i) ==
    IF i = 1 THEN 0
    ELSE WrapAdd32(ind_offset(entries, i - 1), ind_bytes(entries[i - 1]))

\* an index or a slice of all_pixels that is out of range while frame i is
\* written: a pixel written at dst .. dst + 3 in the indexed formats, the
\* range out_offset .. out_offset + frame_pixel_count * 4 in Rgba8
ind_out_of_range(f, i) ==
    LET e == f.entries[i]
        out_offset == ind_offset(f.entries, i)
        len == ind_offset(f.entries, f.frame_count + 1)
    IN IF e.width = 0 \/ e.height = 0 THEN FALSE
       ELSE IF f.pixel_format = Rgba8
       THEN /\ ind_bytes(e) >= 0 /\ e.data_offset + ind_bytes(e) <= Len(f.blob)
            /\ LET end == WrapAdd32(out_offset, ind_bytes(e))
               IN ~ULe(out_offset, end) \/ ~ULe(end, len)
       ELSE \E p \in DOMAIN ind_frame_px(f, e), k \in 0..3 :
               ~ULt(WrapAdd32(out_offset, 4 * p + k), len)

\* result: the returned count, the three output arrays and the length of
\* all_pixels; None is "return 0" before anything is written
decode_msf_individual_frames(data) ==
    LET f == msf_open(data, MSF1)
    IN IF ~f.ok THEN [tag |-> f.fault, val |-> <<>>]
       ELSE IF \E i \in 1..f.frame_count : ind_out_of_range(f, i) THEN Panic
       ELSE Some([count |-> f.frame_count,
                  frame_sizes |-> [i \in 1..f.frame_count |-> ind_size(f.entries[i])],
                  frame_offsets |-> [i \in 1..f.frame_count |-> ind_offset(f.entries, i)],
                  total_pixel_bytes |-> ind_offset(f.entries, f.frame_count + 1),
                  frames |-> [i \in 1..f.frame_count |->
                      IF f.entries[i].width = 0 \/ f.entries[i].height = 0 THEN ZeroBuf(1)
                      ELSE [n |-> f.entries[i].width * f.entries[i].height,
                            px |-> ind_frame_px(f, f.entries[i])]]])

\* frame_count / max(directions, 1) without the lower limit of 1
frames_per_direction_unclamped(frame_count, directions) ==
    IF directions > 0 THEN frame_count \div directions ELSE frame_count

\* frames_per_direction as parse_msf_header computes it
msf_frames_per_direction(frame_count, directions) ==
    IF directions > 0 THEN Max2(frame_count \div directions, 1)
    ELSE Max2(frame_count, 1)

\* the header record; None when the file is short or the magic differs.
\* total_individual_pixel_bytes is a u32 sum of u32 products
RECURSIVE individual_bytes(_, _, _)
individual_bytes(data, frame_table_start, k) ==
    IF k = 0 THEN 0
    ELSE LET e == EntryAt(data, frame_table_start + FRAME_ENTRY_SIZE * (k - 1))
         IN WrapAdd32(individual_bytes(data, frame_table_start, k - 1),
                      IF e.width > 0 /\ e.height > 0 THEN WrapMul4(e.width * e.height)
                      ELSE 4)

parse_msf_header(data) ==
    IF Len(data) < 28 THEN None
    ELSE IF SubSeq(data, 1, 4) # MSF1 THEN None
    ELSE LET frame_count == U16At(data, 12)
             directions == At(data, 14)
             palette_size == U16At(data, 25)
             frame_table_start == 28 + palette_size * 4
         IN Some([canvas_width |-> U16At(data, 8),
                  canvas_height |-> U16At(data, 10),
                  frame_count |-> frame_count,
                  directions |-> directions,
                  fps |-> At(data, 15),
                  anchor_x |-> I16At(data, 16),
                  anchor_y |-> I16At(data, 18),
                  pixel_format |-> At(data, 24),
                  palette_size |-> palette_size,
                  frames_per_direction |-> msf_frames_per_direction(frame_count, directions),
                  total_individual_pixel_bytes |->
                      IF frame_table_start + frame_count * FRAME_ENTRY_SIZE <= Len(data)
                      THEN individual_bytes(data, frame_table_start, frame_count)
                      ELSE 0])

\* composited mode, frame i (1-based): all_pixels is one buffer of
\* frame_count canvases, numbered here in pixels.  c_dst is the pixel that
\* source pixel j = y * fw + x goes to; offsets are sign-extended to usize
\* and the arithmetic wraps (release build), so a negative sum is a position
\* far beyond the buffer.
c_dst(f, i, j) ==
    LET e == f.entries[i]
    IN (i - 1) * f.canvas_width * f.canvas_height
           + (e.offset_y + (j \div e.width)) * f.canvas_width + e.offset_x + (j % e.width)

\* the first pixel of the row source pixel j is in
c_row(f, i, j) == c_dst(f, i, j - (j % f.entries[i].width))

\* the source pixels of frame i that are written
c_written(f, i) ==
    LET e == f.entries[i]
        total == f.canvas_width * f.canvas_height * f.frame_count
    IN IF e.width = 0 \/ e.height = 0 \/ e.data_offset + e.data_length > Len(f.blob)
       THEN {}
       ELSE {j \in 0..(e.width * e.height - 1) :
               IF f.pixel_format = Rgba8
               THEN /\ e.data_offset + (j \div e.width) * e.width * 4 + e.width * 4
                           <= Len(f.blob)
                    /\ c_row(f, i, j) >= 0
                    /\ c_row(f, i, j) + e.width <= total
               ELSE IF f.pixel_format = Indexed8
               THEN /\ e.data_offset + j < Len(f.blob)
                    /\ c_dst(f, i, j) >= 0 /\ c_dst(f, i, j) + 1 <= total
                    /\ f.palette[At(f.blob, e.data_offset + j)][4] > 0
               ELSE /\ e.data_offset + 2 * j + 1 < Len(f.blob)
                    /\ At(f.blob, e.data_offset + 2 * j + 1) # 0
                    /\ c_dst(f, i, j) >= 0 /\ c_dst(f, i, j) + 1 <= total}

\* the value source pixel j of frame i is written with
c_value(f, i, j) ==
    LET off == f.entries[i].data_offset
    IN IF f.pixel_format = Rgba8 THEN Slice(f.blob, off + 4 * j, off + 4 * j + 4)
       ELSE IF f.pixel_format = Indexed8 THEN f.palette[At(f.blob, off + j)]
       ELSE LET c == f.palette[At(f.blob, off + 2 * j)]
            IN <<c[1], c[2], c[3], At(f.blob, off + 2 * j + 1)>>

\* a wrapped destination whose end wraps back to the front passes the bounds
\* check and the write panics
c_panics(f, i) ==
    LET e == f.entries[i]
    IN /\ ~(e.width = 0 \/ e.height = 0 \/ e.data_offset + e.data_length > Len(f.blob))
       /\ \E j \in 0..(e.width * e.height - 1) :
             IF f.pixel_format = Rgba8
             THEN /\ e.data_offset + (j \div e.width) * e.width * 4 + e.width * 4
                         <= Len(f.blob)
                  /\ c_row(f, i, j) < 0 /\ c_row(f, i, j) + e.width >= 0
             ELSE IF f.pixel_format = Indexed8
             THEN /\ e.data_offset + j < Len(f.blob)
                  /\ c_dst(f, i, j) = -1
                  /\ f.palette[At(f.blob, e.data_offset + j)][4] > 0
             ELSE /\ e.data_offset + 2 * j + 1 < Len(f.blob)
                  /\ At(f.blob, e.data_offset + 2 * j + 1) # 0
                  /\ c_dst(f, i, j) = -1

\* what frame i writes: destination pixel -> value of the last source pixel
\* that goes there
c_frame(f, i) ==
    LET J == c_written(f, i)
    IN [d \in {c_dst(f, i, j) : j \in J} |->
           c_value(f, i, SetMax({k \in J : c_dst(f, i, k) = d}))]

RECURSIVE c_frames(_, _)
\* all_pixels after the first k frames (zero where nothing was written)
c_frames(f, k) == IF k = 0 THEN EmptyMap ELSE c_frame(f, k) @@ c_frames(f, k - 1)

\* result: the returned frame count and the output buffer; None is
\* "return 0" before anything is written
decode_msf_frames(data) ==
    LET f == msf_open(data, MSF1)
    IN IF ~f.ok THEN [tag |-> f.fault, val |-> <<>>]
       ELSE IF \E i \in 1..f.frame_count : c_panics(f, i) THEN Panic
       ELSE Some([count |-> f.frame_count,
                  pixels |-> [n |-> f.canvas_width * f.canvas_height * f.frame_count,
                              px |-> Canon(c_frames(f, f.frame_count))]])


(***************************************************************************)
(* MAP to MMF converter (converter/src/bin/map2mmf.rs).  Names are kept as *)
(* their bytes; the names here are ASCII, which GBK decoding and UTF-8     *)
(* encoding leave as they are.                                             *)
(***************************************************************************)
MAP_SIG == <<77, 65, 80, 32, 70, 105, 108, 101, 32, 86, 101, 114>>   \* "MAP File Ver"
MMF1 == <<77, 77, 70, 49>>                                           \* b"MMF1"
MapTilesStart == 16512
MapSlots == 255

\* the bytes before the first 0 of the max_len bytes at offset; empty when
\* they do not all lie inside the file
read_gbk_string(data, offset, max_len) ==
    IF offset + max_len > Len(data) THEN <<>>
    ELSE LET nul == {l \in 0..(max_len - 1) : At(data, offset + l) = 0}
         IN Slice(data, offset, offset + (IF nul = {} THEN max_len ELSE SetMin(nul)))

\* mpc_names holds the empty name for None
parse_old_map(data) ==
    IF Len(data) < MapTilesStart THEN None
    ELSE IF SubSeq(data, 1, 12) # MAP_SIG THEN None
    ELSE LET columns == AsU16(get_i32_le(data, 68))
             rows == AsU16(get_i32_le(data, 72))
             total_tiles == columns * rows
             mpc_names == [k \in 1..MapSlots |-> read_gbk_string(data, 192 + (k - 1) * 64, 32)]
         IN Some([columns |-> columns,
                  rows |-> rows,
                  mpc_names |-> mpc_names,
                  mpc_looping |-> [k \in 1..MapSlots |->
                      mpc_names[k] # <<>> /\ At(data, 192 + (k - 1) * 64 + 36) = 1],
                  tiles |-> [t \in 1..Min2(total_tiles, (Len(data) - MapTilesStart) \div 10) |->
                      LET offset == MapTilesStart + 10 * (t - 1)
                      IN [l1_frame |-> At(data, offset), l1_mpc |-> At(data, offset + 1),
                          l2_frame |-> At(data, offset + 2), l2_mpc |-> At(data, offset + 3),
                          l3_frame |-> At(data, offset + 4), l3_mpc |-> At(data, offset + 5),
                          barrier |-> At(data, offset + 6), trap |-> At(data, offset + 7)]]])

\* ".mpc" at the end of a name, in any case, becomes ".msf"
to_lowercase(name) == [i \in 1..Len(name) |-> IF name[i] \in 65..90 THEN name[i] + 32 ELSE name[i]]
msf_name(name) ==
    IF Len(name) >= 4 /\ SubSeq(to_lowercase(name), Len(name) - 3, Len(name)) = <<46, 109, 112, 99>>
    THEN SubSeq(name, 1, Len(name) - 4) \o <<46, 109, 115, 102>>
    ELSE name

\* old_to_new: the new number of slot old_idx (0-based), 0 when absent
old_to_new(mpc_names, old_idx) ==
    IF old_idx + 1 \in 1..MapSlots /\ mpc_names[old_idx + 1] # <<>>
    THEN Cardinality({k \in 1..(old_idx + 1) : mpc_names[k] # <<>>})
    ELSE 0

new_msf(mpc_names, mpc) == IF mpc = 0 THEN 0 ELSE old_to_new(mpc_names, mpc - 1)

\* the tile data blob before compression
map_blob(map_data) ==
    LET tiles == map_data.tiles
        names == map_data.mpc_names
    IN Concat([t \in 1..Len(tiles) |-> <<new_msf(names, tiles[t].l1_mpc), tiles[t].l1_frame>>])
       \o Concat([t \in 1..Len(tiles) |-> <<new_msf(names, tiles[t].l2_mpc), tiles[t].l2_frame>>])
       \o Concat([t \in 1..Len(tiles) |-> <<new_msf(names, tiles[t].l3_mpc), tiles[t].l3_frame>>])
       \o [t \in 1..Len(tiles) |-> tiles[t].barrier]
       \o [t \in 1..Len(tiles) |-> tiles[t].trap]

\* the k-th populated slot (1-based slot number), in increasing order
nth_populated(mpc_names, k) ==
    CHOOSE slot \in 1..MapSlots :
        /\ mpc_names[slot] # <<>>
        /\ Cardinality({j \in 1..slot : mpc_names[j] # <<>>}) = k

\* new_idx is a u8 that starts at 1 and is incremented after every populated
\* slot: after the 255th the increment overflows, which panics when the
\* build checks overflow and wraps to a value that is not used otherwise
convert_map_to_mmf(map_data, trap_entries, overflow_checks) ==
    LET names == map_data.mpc_names
        populated == Cardinality({k \in 1..MapSlots : names[k] # <<>>})
        msf_count == AsU16(populated)
        trap_count == AsU16(Len(trap_entries))
        flags == IF trap_count > 0 THEN 3 ELSE 1
    IN IF populated + 1 > 255 /\ overflow_checks THEN Panic
       ELSE Some(MMF1 \o U16Le(1) \o U16Le(flags)
                 \o U16Le(map_data.columns) \o U16Le(map_data.rows)
                 \o U16Le(msf_count) \o U16Le(trap_count) \o U32Le(0)
                 \o Concat([j \in 1..populated |->
                       LET slot == nth_populated(names, j)
                       IN <<AsU8(Len(msf_name(names[slot])))>> \o msf_name(names[slot])
                              \o <<IF map_data.mpc_looping[slot] THEN 1 ELSE 0>>])
                 \o Concat([j \in 1..Len(trap_entries) |->
                       <<trap_entries[j].trap_index>>
                           \o U16Le(AsU16(Len(trap_entries[j].script_path)))
                           \o trap_entries[j].script_path])
                 \o CHUNK_END \o U32Le(0)
                 \o zstd_compress(map_blob(map_data)))

(***************************************************************************)
(* ASF source files                                                        *)
(***************************************************************************)
MaxFrames == 3      \* frames per generated source file

\* which stream each frame of a generated file takes: the first two frames
\* range over all n streams, the later ones over the first two
Picks(n) == {pick \in [1..MaxFrames -> 1..n] : \A i \in 3..MaxFrames : pick[i] <= 2}

ASF_SIG == <<65, 83, 70, 32, 49, 46, 48>>   \* "ASF 1.0"

\* an ASF file as the parsers read it: signature, eight i32 fields at 16,
\* 16 reserved bytes, BGRA palette, (offset, length) index, RLE streams
AsfFile(sig, w, h, dirs, interval, left, bottom, colors, rles) ==
    LET base == ASF_PALETTE_START + 4 * Len(colors) + 8 * Len(rles)
    IN sig \o Zeros(16 - Len(sig))
           \o I32Le(w) \o I32Le(h) \o I32Le(Len(rles)) \o I32Le(dirs)
           \o I32Le(Len(colors)) \o I32Le(interval) \o I32Le(left) \o I32Le(bottom)
           \o Zeros(16)
           \o Concat(colors)
           \o Concat([i \in 1..Len(rles) |->
                         I32Le(base + SumLen(rles, i - 1)) \o I32Le(Len(rles[i]))])
           \o Concat(rles)

AsfColors == <<<<30, 20, 10, 0>>, <<60, 50, 40, 0>>>>      \* BGRA

\* RLE streams for a 2 x 2 canvas: (count, alpha) headers, then `count`
\* colour indices when alpha > 0
AsfRuns ==
    << <<>>,                              \* no run: an empty frame
       <<1, 255, 0>>,                     \* one opaque pixel at (0, 0)
       <<1, 0, 2, 128, 1, 0>>,            \* skip one, two half-transparent
       <<3, 0, 1, 200, 1>>,               \* a single pixel at (1, 1)
       <<4, 255, 0, 1, 1, 0>>,            \* the full canvas
       <<1, 255, 5, 1, 9, 1>>,            \* an index beyond the palette
       <<2, 255, 0>> >>                   \* a run of two with one colour byte

\* skip 32768 pixels (128 runs of 255 and one of 128), then one opaque pixel
WideRun == Concat([i \in 1..128 |-> <<255, 0>>]) \o <<128, 0>> \o <<1, 255, 1>>

\* the file whose frame i is stream pick[i]
SmallAsf(pick) ==
    AsfFile(ASF_SIG, 2, 2, 1, 100, -3, 5, AsfColors, [i \in 1..MaxFrames |-> AsfRuns[pick[i]]])

AsfFiles ==
    {SmallAsf(pick) : pick \in Picks(Len(AsfRuns))}
    \cup {AsfFile(ASF_SIG, 32769, 1, 1, 0, 0, 0, AsfColors, <<WideRun>>),
          AsfFile(ASF_SIG, 1, 32769, 8, 3, 0, 0, AsfColors, <<WideRun>>),
          AsfFile(<<65, 83, 70, 32, 49, 46, 49>>, 2, 2, 1, 100, 0, 0, AsfColors,
                  <<AsfRuns[2], AsfRuns[5], AsfRuns[3]>>)}

\* lengths a file is cut to: whole, inside or just before the last frame's
\* data, inside the last index entry, and inside the first index entry
AsfCuts(file) ==
    {Len(file), Len(file) - 1, Len(file) - 2, Len(file) - 3}
    \cup {k \in {ASF_PALETTE_START + 4 * Len(AsfColors) + 8 * MaxFrames - 4,
                 ASF_PALETTE_START + 4 * Len(AsfColors) + 4} : k < Len(file)}

JobsOf(t, f, cuts) == {[tool |-> t, full |-> f, src |-> SubSeq(f, 1, k)] : k \in cuts}

\* files below and at the shortest length the parsers take
ShortAsfJobs ==
    UNION {JobsOf("asf", f, {0, 6, 7, 79, 80}) :
              f \in {SmallAsf(<<2, 3, 1>>), SmallAsf(<<5, 4, 2>>)}}

\* files with no frame, with directions = 0, and with frame counts that
\* directions does not divide
DirectionAsfFiles ==
    {AsfFile(ASF_SIG, 2, 2, dirs, 100, 0, 0, AsfColors \o AsfColors,
             [i \in 1..n |-> AsfRuns[i + 1]]) :
        dirs \in {0, 1, 2, 8, -1}, n \in {0, 1, 5}}

AsfJobs ==
    UNION {JobsOf("asf", f, AsfCuts(f)) : f \in AsfFiles} \cup ShortAsfJobs
        \cup UNION {JobsOf("asf", f, {Len(f)}) : f \in DirectionAsfFiles}

(***************************************************************************)
(* MPC source files                                                        *)
(***************************************************************************)
\* one frame: data_len (header included), width, height, 8 reserved bytes, RLE
MpcFrame(w, h, rle) == U32Le(20 + Len(rle)) \o U32Le(w) \o U32Le(h) \o Zeros(8) \o rle

\* an MPC file as the parsers read it: signature, header fields at 64,
\* BGRA palette at 128, frame offsets relative to the frame data, frames
MpcFile(sig, w, h, dirs, interval, bottom, colors, frames) ==
    sig \o Zeros(64 - Len(sig))
        \o U32Le(SumLen(frames, Len(frames))) \o U32Le(w) \o U32Le(h)
        \o U32Le(Len(frames)) \o U32Le(dirs) \o U32Le(Len(colors)) \o U32Le(interval)
        \o I32Le(bottom)
        \o Zeros(32)
        \o Concat(colors)
        \o Concat([i \in 1..Len(frames) |-> U32Le(SumLen(frames, i - 1))])
        \o Concat(frames)

MpcColors == [i \in 1..7 |-> <<30 * i, 20 * i, 10 * i, 0>>]      \* BGRA

MpcFrames ==
    << MpcFrame(0, 0, <<>>),                        \* an empty frame
       MpcFrame(2, 1, <<2, 0, 1>>),                 \* opaque indices 0 and 1
       MpcFrame(2, 2, <<129, 1, 1, 130>>),          \* skip, index 1, skip
       MpcFrame(1, 1, <<>>),                        \* nothing drawn
       MpcFrame(1, 1, <<1, 1>>),                    \* index 1 only
       MpcFrame(2, 1, <<1, 9, 129>>),               \* an index beyond the palette
       MpcFrame(4, 2, <<8, 0, 1, 2, 3, 4, 5, 6, 7>>),   \* indices 0..7
       MpcFrame(65537, 1, <<1, 0>>),                \* width 2^16 + 1
       MpcFrame(2049, 1, <<1, 0>>),                 \* width just above the limit
       MpcFrame(16, 16, <<128>> \o [i \in 1..128 |-> i - 1]
                            \o <<128>> \o [i \in 1..128 |-> 127 + i]) >>   \* all 256 indices

\* the file whose frame i is MpcFrames[pick[i]]
SmallMpc(pick) ==
    MpcFile(MPC_SIG, 4, 20, 1, 100, 3, MpcColors, [i \in 1..MaxFrames |-> MpcFrames[pick[i]]])

MpcFiles ==
    {SmallMpc(pick) : pick \in Picks(Len(MpcFrames))}
    \cup {MpcFile(<<77, 80, 67, 32, 70, 105, 108, 101, 32, 86, 101, 115>>, 4, 20, 1, 100, 3,
                  MpcColors, <<MpcFrames[2], MpcFrames[3]>>)}

\* lengths a file is cut to: whole, inside the last frame's data, inside the
\* last frame's header, and inside the last frame offset
MpcCuts(file) ==
    {Len(file), Len(file) - 1}
    \cup {k \in {MPC_PALETTE_START + 4 * Len(MpcColors) + 4 * MaxFrames - 2} : k < Len(file)}

\* files that carry the other signature the engine knows, and one that
\* differs from it in its last byte
ShdFiles ==
    {MpcFile(sig, 4, 20, 1, 100, 3, MpcColors, <<MpcFrames[2], MpcFrames[3], MpcFrames[5]>>) :
        sig \in {SHD_SIG, <<83, 72, 68, 32, 70, 105, 108, 101, 32, 86, 101, 115>>}}

\* files below and at the shortest length the parsers take
ShortMpcJobs ==
    UNION {JobsOf("mpc", f, {0, 11, 12, 159, 160}) :
              f \in ShdFiles \cup {SmallMpc(<<2, 3, 1>>), SmallMpc(<<5, 1, 2>>)}}

MpcJobs ==
    UNION {JobsOf("mpc", f, MpcCuts(f)) : f \in MpcFiles \cup ShdFiles} \cup ShortMpcJobs


(***************************************************************************)
(* MSF files                                                               *)
(***************************************************************************)
\* the encodings of one pixel the files are made of, per pixel format
MsfPixels(pixel_format) ==
    IF pixel_format = Rgba8
    THEN {<<10, 20, 30, 255>>, <<0, 0, 0, 0>>, <<5, 0, 0, 0>>, <<1, 2, 3, 4>>}
    ELSE IF pixel_format = Indexed8
    THEN {<<0>>, <<1>>, <<2>>, <<3>>}
    ELSE {<<0, 255>>, <<1, 128>>, <<0, 0>>, <<3, 255>>}

\* Indexed8 carries a transparent entry at index 1
MsfPalette(pixel_format) ==
    IF pixel_format = Rgba8 THEN <<>>
    ELSE IF pixel_format = Indexed8
    THEN <<<<10, 20, 30, 255>>, <<0, 0, 0, 0>>, <<40, 50, 60, 255>>>>
    ELSE <<<<10, 20, 30, 255>>, <<40, 50, 60, 255>>>>

\* a 3x1 canvas with two frames: the three pixels px, and a 1x1 frame at
\* x = 2 that shows the first of them again
MsfFile(magic, flags, pixel_format, px) ==
    LET bpp == Len(px[1])
        blob == px[1] \o px[2] \o px[3]
    IN msf_bytes(magic, 1, flags,
                 [width |-> 3, height |-> 1, frame_count |-> 2, directions |-> 1,
                  fps |-> 10, left |-> 1, bottom |-> -1],
                 pixel_format, MsfPalette(pixel_format),
                 << [offset_x |-> 0, offset_y |-> 0, width |-> 3, height |-> 1,
                     data_offset |-> 0, data_length |-> 3 * bpp],
                    [offset_x |-> 2, offset_y |-> 0, width |-> 1, height |-> 1,
                     data_offset |-> 0, data_length |-> bpp] >>,
                 IF flags % 2 = 1 THEN zstd_compress(blob) ELSE blob)

MsfFilesOf(pixel_format) ==
    {MsfFile(magic, flags, pixel_format, px) :
        magic \in {MSF1, MSF2}, flags \in {0, 1},
        px \in [1..3 -> MsfPixels(pixel_format)]}

MsfFiles == UNION {MsfFilesOf(pixel_format) : pixel_format \in {Rgba8, Indexed8, Indexed8Alpha8}}

\* files whose pixel_format byte is none of the three known values, with
\* four bytes of payload per pixel
UnknownFormats == {3, 255}
UnknownFormatFiles ==
    {MsfFile(magic, flags, pixel_format, px) :
        magic \in {MSF1, MSF2}, flags \in {0, 1}, pixel_format \in UnknownFormats,
        px \in [1..3 -> {<<10, 20, 30, 255>>, <<1, 2, 3, 4>>}]}

\* chunk areas put between the frame table and the pixel blob: the bytes
\* that take the place of the plain end sentinel
END_SENTINEL == CHUNK_END \o <<0, 0, 0, 0>>
Chunk(id, length, payload) == id \o length \o payload
ChunkAreas ==
    {Chunk(<<65, 66, 67, 68>>, <<3, 0, 0, 0>>, <<1, 2, 3>>) \o END_SENTINEL,
     Chunk(<<65, 66, 67, 68>>, <<0, 0, 0, 0>>, <<>>)
         \o Chunk(<<69, 70, 71, 72>>, <<2, 0, 0, 0>>, <<9, 9>>) \o END_SENTINEL,
     \* an end sentinel inside a payload, which the walk steps over
     Chunk(<<65, 66, 67, 68>>, <<8, 0, 0, 0>>, END_SENTINEL) \o END_SENTINEL,
     \* an end sentinel whose length field is not 0
     Chunk(CHUNK_END, <<5, 0, 0, 0>>, <<>>),
     \* no end sentinel: the chunk reaches past the end of the file
     Chunk(<<65, 66, 67, 68>>, <<200, 0, 0, 0>>, <<1, 2, 3>>),
     Chunk(<<65, 66, 67, 68>>, <<0, 0, 0, 128>>, <<1, 2, 3>>) \o END_SENTINEL,
     \* lengths of 2^32 - 8 and 2^32 - 16
     Chunk(<<65, 66, 67, 68>>, <<248, 255, 255, 255>>, <<>>) \o END_SENTINEL,
     Chunk(<<65, 66, 67, 68>>, <<240, 255, 255, 255>>, <<>>) \o END_SENTINEL,
     \* half an end sentinel
     <<69, 78, 68, 0>>}

\* where the frame table of an MSF file ends
TableEnd(data) == 28 + U16At(data, 25) * 4 + U16At(data, 12) * FRAME_ENTRY_SIZE

\* file f with the chunk area in place of its end sentinel
WithChunks(f, area) == SubSeq(f, 1, TableEnd(f)) \o area \o SliceFrom(f, TableEnd(f) + 8)

ChunkFiles ==
    {WithChunks(MsfFile(MSF1, flags, pixel_format,
                        [i \in 1..3 |-> CHOOSE p \in MsfPixels(pixel_format) : p[1] # 0]),
                area) :
        flags \in {0, 1}, pixel_format \in {Rgba8, Indexed8, Indexed8Alpha8},
        area \in ChunkAreas}

\* files whose frame table holds a frame of HugeSide x HugeSide pixels
\* (4 x HugeSide x HugeSide = 2^32), an empty frame and a 1x1 frame, in
\* either order, over a blob of three pixels
HugeSide == 32768
HugeFile(pixel_format, huge_first) ==
    LET px == CHOOSE p \in MsfPixels(pixel_format) : p[1] # 0
        bpp == Len(px)
        huge == [offset_x |-> 0, offset_y |-> 0, width |-> HugeSide, height |-> HugeSide,
                 data_offset |-> 0, data_length |-> 3 * bpp]
        empty == [offset_x |-> 0, offset_y |-> 0, width |-> 0, height |-> 5,
                  data_offset |-> 0, data_length |-> 0]
        small == [offset_x |-> 2, offset_y |-> 0, width |-> 1, height |-> 1,
                  data_offset |-> 0, data_length |-> bpp]
    IN msf_bytes(MSF1, 1, 0,
                 [width |-> 3, height |-> 1, frame_count |-> 3, directions |-> 1,
                  fps |-> 10, left |-> 1, bottom |-> -1],
                 pixel_format, MsfPalette(pixel_format),
                 IF huge_first THEN <<huge, empty, small>> ELSE <<small, empty, huge>>,
                 px \o px \o px)

HugeFiles ==
    {HugeFile(pixel_format, huge_first) :
        pixel_format \in {Rgba8, Indexed8, Indexed8Alpha8}, huge_first \in BOOLEAN}

\* files with frame_count frames of 1x1 and the given directions value
DirectionMsf(frame_count, directions) ==
    LET px == CHOOSE p \in MsfPixels(Rgba8) : p[1] # 0
    IN msf_bytes(MSF1, 1, 0,
                 [width |-> 1, height |-> 1, frame_count |-> frame_count,
                  directions |-> directions, fps |-> 10, left |-> 0, bottom |-> 0],
                 Rgba8, <<>>,
                 [i \in 1..frame_count |->
                     [offset_x |-> 0, offset_y |-> 0, width |-> 1, height |-> 1,
                      data_offset |-> 0, data_length |-> 4]],
                 px)

DirectionMsfFiles ==
    {DirectionMsf(frame_count, directions) :
        frame_count \in {0, 1, 2, 5}, directions \in {0, 1, 2, 3, 8, 255}}

HugeJobs == UNION {JobsOf("engine", f, {Len(f)}) : f \in HugeFiles \cup DirectionMsfFiles}

\* files whose frame entries do not fit the 2 x 2 canvas: <<offset_x,
\* offset_y, width, height>> of a frame of opaque pixels that starts left of
\* or above the canvas, or ends right of or below it; <<1, 1, 1, 1>> fits
MisplacedFrames ==
    {<<-1, 0, 2, 1>>, <<1, 0, 2, 1>>, <<0, 1, 1, 2>>, <<0, 2, 2, 1>>, <<0, -1, 1, 1>>,
     <<0, 0, 3, 1>>, <<1, 1, 1, 1>>}

MisplacedMsf(pixel_format, first, second) ==
    LET px == IF pixel_format = Rgba8 THEN <<10, 20, 30, 255>>
              ELSE IF pixel_format = Indexed8 THEN <<0>> ELSE <<0, 255>>
        entry(r) == [offset_x |-> r[1], offset_y |-> r[2], width |-> r[3], height |-> r[4],
                     data_offset |-> 0, data_length |-> r[3] * r[4] * Len(px)]
    IN msf_bytes(MSF1, 1, 0,
                 [width |-> 2, height |-> 2, frame_count |-> 2, directions |-> 1,
                  fps |-> 10, left |-> 0, bottom |-> 0],
                 pixel_format, MsfPalette(pixel_format),
                 <<entry(first), entry(second)>>,
                 px \o px \o px)

MisplacedFiles ==
    {MisplacedMsf(pixel_format, r, <<0, 0, 1, 1>>) :
        pixel_format \in {Rgba8, Indexed8, Indexed8Alpha8}, r \in MisplacedFrames}
    \cup {MisplacedMsf(pixel_format, <<0, 0, 1, 1>>, r) :
            pixel_format \in {Rgba8, Indexed8, Indexed8Alpha8}, r \in MisplacedFrames}

MsfJobs ==
    UNION {JobsOf("msf", f, {Len(f)}) :
              f \in MsfFiles \cup ChunkFiles \cup UnknownFormatFiles \cup MisplacedFiles}

\* the palette of an MSF file: palette_size entries from byte 28
msf_palette(data) ==
    [k \in 1..U16At(data, 25) |-> Slice(data, 28 + 4 * (k - 1), 28 + 4 * k)]

\* the MsfEncodeInput made of a decoded file: the header fields, the file's
\* pixel format and palette, and one canvas per frame cut from the decoded
\* buffer
reencode_input(data, h, decoded) ==
    LET size == h.canvas_width * h.canvas_height
    IN [hd |-> [width |-> h.canvas_width, height |-> h.canvas_height,
                frame_count |-> h.frame_count, directions |-> h.directions,
                fps |-> h.fps, left |-> h.anchor_x, bottom |-> h.anchor_y],
        pixel_format |-> h.pixel_format,
        palette |-> msf_palette(data),
        frame_pixels |->
            [i \in 1..h.frame_count |->
                [n |-> size,
                 px |-> [q \in {r \in 0..(size - 1) :
                                   r + (i - 1) * size \in DOMAIN decoded.pixels.px} |->
                            decoded.pixels.px[q + (i - 1) * size]]]]]


(***************************************************************************)
(* MAP files                                                               *)
(***************************************************************************)
\* the name in slot k (0-based) of a generated file: ".mpc", ".MPC" or no
\* extension
SlotName(k) ==
    <<97 + (k % 26), 48 + (k % 10)>>
        \o (IF k % 3 = 0 THEN <<46, 109, 112, 99>>
            ELSE IF k % 3 = 1 THEN <<46, 77, 80, 67>> ELSE <<>>)

\* a MAP file as parse_old_map reads it: signature, columns and rows at 68,
\* 255 name slots of 64 bytes from 192 (looping flag at +36), and from 16512
\* one 10-byte record per tile
MapFile(sig, columns, rows, populated, tiles) ==
    sig \o Zeros(68 - Len(sig)) \o I32Le(columns) \o I32Le(rows) \o Zeros(192 - 76)
        \o Concat([k \in 1..MapSlots |->
               IF (k - 1) \in populated
               THEN SlotName(k - 1) \o Zeros(36 - Len(SlotName(k - 1)))
                        \o <<(k - 1) % 2>> \o Zeros(27)
               ELSE Zeros(64)])
        \o Zeros(MapTilesStart - 192 - 64 * MapSlots)
        \o Concat([t \in 1..Len(tiles) |-> tiles[t] \o <<0, 0>>])

\* tiles as (l1_frame, l1_mpc, l2_frame, l2_mpc, l3_frame, l3_mpc, barrier, trap)
MapTiles ==
    {<< <<1, 1, 2, 0, 3, 3, 128, 0>>, <<9, 6, 8, 255, 7, 100, 0, 1>>,
        <<0, 0, 0, 0, 0, 0, 64, 2>>, <<5, 255, 4, 3, 200, 1, 255, 255>> >>,
     << <<7, 3, 7, 3, 7, 3, 1, 1>>, <<0, 254, 0, 2, 0, 7, 0, 0>>,
        <<250, 1, 251, 1, 252, 6, 3, 0>>, <<1, 0, 2, 0, 3, 0, 0, 9>> >>}

\* which of the 255 slots hold a name: none, some, all but one, all
MapPopulated == {{}, {0}, {2, 5}, {0, 2, 5, 254}, 0..253, 0..254}

MapFiles ==
    {MapFile(MAP_SIG, 2, 2, populated, tiles) : populated \in MapPopulated, tiles \in MapTiles}
    \cup {MapFile(<<77, 65, 80, 32, 70, 105, 108, 101, 32, 86, 101, 115>>, 2, 2, {0, 2}, tiles) :
             tiles \in MapTiles}
    \cup {MapFile(MAP_SIG, 65538, 2, {0, 2}, tiles) : tiles \in MapTiles}

\* whole, inside the last tile, without tiles, and one byte short of the
\* name table
MapCuts(file) == {Len(file), Len(file) - 1, MapTilesStart, MapTilesStart - 1}

MapJobs ==
    UNION {{[tool |-> "map", full |-> <<>>, src |-> SubSeq(f, 1, k)] : k \in MapCuts(f)} :
              f \in MapFiles}

\* the trap entries of a map's section of Traps.ini
TrapChoices == {<<>>, <<[trap_index |-> 1, script_path |-> <<116, 46, 116, 120, 116>>]>>}

(***************************************************************************)
(* Large MPC files.  The planes of a file whose frames add up to 2^32      *)
(* bytes cannot be written out here, and neither can a number from 2^31    *)
(* on; the loop that assigns the offsets only uses the planes' lengths,    *)
(* so it is followed on lengths, kept as two 16-bit limbs.                 *)
(***************************************************************************)
\* a length as [hi, lo] with value hi * 2^16 + lo
WideOf(n) == [hi |-> n \div 65536, lo |-> n % 65536]
WideAdd(a, b) ==
    [hi |-> a.hi + b.hi + (a.lo + b.lo) \div 65536, lo |-> (a.lo + b.lo) % 65536]
\* `as u32`
WideAsU32(a) == [hi |-> a.hi % 65536, lo |-> a.lo]
WideLt(a, b) == a.hi < b.hi \/ (a.hi = b.hi /\ a.lo < b.lo)

\* the length of the plane the "process frames" loop pushes for frame i
\* (0-based): vec![transparent_idx; width * height], or empty
mpc_frame_len(mpc_data, frame_data_start, data_offsets, i) ==
    IF i >= Len(data_offsets) THEN 0
    ELSE LET ds == frame_data_start + data_offsets[i + 1]
             width == AsU16(get_u32_le(mpc_data, ds + 4))
             height == AsU16(get_u32_le(mpc_data, ds + 8))
         IN IF ds + 12 > Len(mpc_data) THEN 0
            ELSE IF width = 0 \/ height = 0 \/ width > MaxFrameSide
                    \/ height > MaxFrameSide
            THEN 0
            ELSE width * height

\* before the loop: no frame done, concat_raw empty
CatInit ==
    [i |-> 0, len |-> WideOf(0),
     data_offset |-> WideOf(0), data_length |-> WideOf(0),
     prev_offset |-> WideOf(0), prev_any |-> FALSE]

\* the loop body for frame c.i.  data_offset and data_length are the fields
\* of the entry just assigned, prev_offset the data_offset of the last
\* non-empty entry before it (prev_any: there is one), len is
\* concat_raw.len() before the frame is appended when read through c, and
\* after in the result.
concat_step(mpc_data, c) ==
    LET hd == mpc_fields(mpc_data)
        offsets_start == MPC_PALETTE_START + hd.color_count * 4
        n == mpc_frame_len(mpc_data, offsets_start + hd.frame_count * 4,
                           mpc_data_offsets(mpc_data, offsets_start, hd.frame_count), c.i)
    IN [i |-> c.i + 1,
        len |-> WideAdd(c.len, WideOf(n)),
        data_offset |-> WideAsU32(c.len),
        data_length |-> WideAsU32(WideOf(n)),
        prev_offset |-> IF c.i > 0 /\ c.data_length # WideOf(0) THEN c.data_offset
                        ELSE c.prev_offset,
        prev_any |-> c.prev_any \/ (c.i > 0 /\ c.data_length # WideOf(0))]

BigFrames == 1025   \* frames of the large file: one more than 2^32 / 2^22

\* BigFrames offsets that all point at one 2048 x 2048 frame with an empty
\* RLE stream
BigMpc ==
    MPC_SIG \o Zeros(64 - Len(MPC_SIG))
        \o U32Le(20) \o U32Le(MaxFrameSide) \o U32Le(MaxFrameSide)
        \o U32Le(BigFrames) \o U32Le(1) \o U32Le(Len(MpcColors)) \o U32Le(100)
        \o I32Le(0)
        \o Zeros(32)
        \o Concat(MpcColors)
        \o Zeros(4 * BigFrames)
        \o MpcFrame(MaxFrameSide, MaxFrameSide, <<>>)

\* (no uncut copy is kept: the file is not cut)
BigJobs == {[tool |-> "big", full |-> <<>>, src |-> BigMpc]}


(***************************************************************************)
(* The tool chains                                                         *)
(***************************************************************************)
Jobs == AsfJobs \cup MpcJobs \cup MsfJobs \cup HugeJobs \cup BigJobs \cup MapJobs

Init ==
    \E j \in Jobs :
        /\ tool = j.tool
        /\ full = j.full
        /\ src = j.src
        /\ pc = (IF j.tool \in {"msf", "engine"} THEN "header"
                 ELSE IF j.tool = "big" THEN "concat"
                 ELSE IF j.tool = "map" THEN "parse" ELSE "convert")
        /\ msf = NotRun
        /\ msfFull = NotRun
        /\ msfE = NotRun
        /\ tidx = -1
        /\ srcDec = NotRun
        /\ msfDec = NotRun
        /\ hdr = NotRun
        /\ canvas = NotRun
        /\ canvas2 = NotRun
        /\ indiv = NotRun
        /\ vrfy = NotRun
        /\ cat = CatInit
        /\ vrfy1 = NotRun
        /\ engHdr = NotRun
        /\ engDec = NotRun
        /\ oldMap = NotRun
        /\ mmf = NotRun
        /\ run = NotRun
        /\ pf = NotRun
        /\ sh = NotRun
        /\ walk = NotRun

\* asf2msf on the file
ConvertAsf ==
    /\ tool = "asf" /\ pc = "convert"
    /\ msf' = convert_asf_to_msf(src)
    /\ pc' = "convert_full"
    /\ UNCHANGED <<tool, full, src, cat, extVars, msfFull, msfE, tidx, srcDec, msfDec, readVars>>

\* asf2msf on the file as it was before it was cut
ConvertAsfFull ==
    /\ tool = "asf" /\ pc = "convert_full"
    /\ msfFull' = convert_asf_to_msf(full)
    /\ pc' = "engine"
    /\ UNCHANGED <<tool, full, src, cat, extVars, msf, msfE, tidx, srcDec, msfDec, readVars>>

\* the engine's ASF path: asf_to_msf_input, then encode_msf
EncodeAsf ==
    /\ tool = "asf" /\ pc = "engine"
    /\ msfE' = LET input == asf_to_msf_input(src)
               IN IF IsSome(input) THEN encode_msf(input.val) ELSE input
    /\ pc' = "decode_src"
    /\ UNCHANGED <<tool, full, src, cat, extVars, msf, msfFull, tidx, srcDec, msfDec, readVars>>

\* verify: decode the ASF
VerifyDecodeAsf ==
    /\ tool = "asf" /\ pc = "decode_src"
    /\ srcDec' = decode_asf_to_rgba(src)
    /\ pc' = "decode_msf"
    /\ UNCHANGED <<tool, full, src, cat, extVars, msf, msfFull, msfE, tidx, msfDec, readVars>>

\* verify: decode the MSF the converter wrote (there is none when it failed)
VerifyDecodeMsf ==
    /\ tool = "asf" /\ pc = "decode_msf"
    /\ msfDec' = IF IsSome(msf) THEN decode_msf_to_rgba(msf.val) ELSE NotRun
    /\ pc' = "engine_header"
    /\ UNCHANGED <<tool, full, src, cat, extVars, msf, msfFull, msfE, tidx, srcDec, readVars>>

\* the engine reads the header of the ASF
EngineParseAsf ==
    /\ tool = "asf" /\ pc = "engine_header"
    /\ engHdr' = parse_asf_header(src)
    /\ pc' = "engine_decode"
    /\ UNCHANGED <<tool, full, src, cat, msfE, convVars, readVars, vrfy1, engDec, oldMap, mmf, run, pf, sh, walk>>

\* the engine decodes the ASF
EngineDecodeAsf ==
    /\ tool = "asf" /\ pc = "engine_decode"
    /\ engDec' = decode_asf_frames(src)
    /\ pc' = "done"
    /\ UNCHANGED <<tool, full, src, cat, msfE, convVars, readVars, vrfy1, engHdr, oldMap, mmf, run, pf, sh, walk>>

\* mpc2msf on the file; tidx records the transparent index it adopts
ConvertMpc ==
    /\ tool = "mpc" /\ pc = "convert"
    /\ msf' = convert_mpc_to_msf(src)
    /\ tidx' = IF IsSome(convert_mpc_to_msf(src)) THEN mpc_transparent_idx(src) ELSE -1
    /\ pc' = "convert_full"
    /\ UNCHANGED <<tool, full, src, cat, extVars, msfFull, msfE, srcDec, msfDec, readVars>>

\* mpc2msf on the file as it was before it was cut
ConvertMpcFull ==
    /\ tool = "mpc" /\ pc = "convert_full"
    /\ msfFull' = convert_mpc_to_msf(full)
    /\ pc' = "decode_src"
    /\ UNCHANGED <<tool, full, src, cat, extVars, msf, msfE, tidx, srcDec, msfDec, readVars>>

\* verify_mpc: decode the MPC
VerifyDecodeMpc ==
    /\ tool = "mpc" /\ pc = "decode_src"
    /\ srcDec' = decode_mpc_to_rgba(src)
    /\ pc' = "decode_msf"
    /\ UNCHANGED <<tool, full, src, cat, extVars, msf, msfFull, msfE, tidx, msfDec, readVars>>

\* the engine decodes the MSF the converter wrote, frame by frame
DecodeIndividual ==
    /\ tool = "mpc" /\ pc = "decode_msf"
    /\ msfDec' = IF IsSome(msf) THEN decode_msf_individual_frames(msf.val) ELSE NotRun
    /\ pc' = "engine_header"
    /\ UNCHANGED <<tool, full, src, cat, extVars, msf, msfFull, msfE, tidx, srcDec, readVars>>

\* the engine reads the header of the MPC
EngineParseMpc ==
    /\ tool = "mpc" /\ pc = "engine_header"
    /\ engHdr' = parse_mpc_header(src)
    /\ pc' = "engine_decode"
    /\ UNCHANGED <<tool, full, src, cat, msfE, convVars, readVars, vrfy1, engDec, oldMap, mmf, run, pf, sh, walk>>

\* the engine decodes the MPC
EngineDecodeMpc ==
    /\ tool = "mpc" /\ pc = "engine_decode"
    /\ engDec' = decode_mpc_frames(src)
    /\ pc' = "done"
    /\ UNCHANGED <<tool, full, src, cat, msfE, convVars, readVars, vrfy1, engHdr, oldMap, mmf, run, pf, sh, walk>>

\* the engine reads the header of an MSF file (in the "engine" chain the
\* engine is asked for the header and the frame-by-frame decode only)
ParseHeader ==
    /\ tool \in {"msf", "engine"} /\ pc = "header"
    /\ hdr' = parse_msf_header(src)
    /\ pc' = (IF tool = "engine" THEN "individual" ELSE "decode")
    /\ UNCHANGED <<tool, full, src, cat, extVars, msfE, convVars, canvas, canvas2, indiv, vrfy>>

\* the engine decodes the file to composited canvases
DecodeFrames ==
    /\ tool = "msf" /\ pc = "decode"
    /\ canvas' = decode_msf_frames(src)
    /\ pc' = "reencode"
    /\ UNCHANGED <<tool, full, src, cat, extVars, msfE, convVars, hdr, canvas2, indiv, vrfy>>

\* the decoded canvases are encoded again with the file's pixel format and
\* palette (nothing to encode when the file was rejected)
ReEncode ==
    /\ tool = "msf" /\ pc = "reencode"
    /\ msfE' = IF IsSome(hdr) /\ IsSome(canvas)
               THEN encode_msf(reencode_input(src, hdr.val, canvas.val))
               ELSE NotRun
    /\ pc' = "decode2"
    /\ UNCHANGED <<tool, full, src, cat, extVars, convVars, readVars>>

\* the engine decodes the re-encoded file
DecodeAgain ==
    /\ tool = "msf" /\ pc = "decode2"
    /\ canvas2' = IF IsSome(msfE) THEN decode_msf_frames(msfE.val) ELSE NotRun
    /\ pc' = "individual"
    /\ UNCHANGED <<tool, full, src, cat, extVars, msfE, convVars, hdr, canvas, indiv, vrfy>>

\* the engine decodes the file frame by frame
DecodeTiles ==
    /\ tool \in {"msf", "engine"} /\ pc = "individual"
    /\ indiv' = decode_msf_individual_frames(src)
    /\ pc' = (IF tool = "engine" THEN "done" ELSE "verify")
    /\ UNCHANGED <<tool, full, src, cat, extVars, msfE, convVars, hdr, canvas, canvas2, vrfy>>

\* the converter's verifier decodes the file
VerifyMsf ==
    /\ tool = "msf" /\ pc = "verify"
    /\ vrfy' = decode_msf_to_rgba(src)
    /\ pc' = "verify1"
    /\ UNCHANGED <<tool, full, src, cat, extVars, msfE, convVars, hdr, canvas, canvas2, indiv>>

\* the asf2msf package's verifier decodes the file
VerifyMsf1 ==
    /\ tool = "msf" /\ pc = "verify1"
    /\ vrfy1' = asf2msf_decode_msf_to_rgba(src)
    /\ pc' = "done"
    /\ UNCHANGED <<tool, full, src, cat, msfE, convVars, readVars, engHdr, engDec, oldMap, mmf, run, pf, sh, walk>>

\* map2mmf reads the MAP
ParseMap ==
    /\ tool = "map" /\ pc = "parse"
    /\ oldMap' = parse_old_map(src)
    /\ pc' = "convert"
    /\ UNCHANGED <<tool, full, src, cat, msfE, convVars, readVars, vrfy1, engHdr, engDec, mmf, run, pf, sh, walk>>

\* map2mmf converts the parsed MAP, with the trap entries of its section
\* and in a build with or without overflow checks (nothing to convert when
\* the file was rejected)
ConvertMap ==
    /\ tool = "map" /\ pc = "convert"
    /\ \E trap_entries \in TrapChoices, overflow_checks \in BOOLEAN :
          mmf' = IF IsSome(oldMap)
                 THEN convert_map_to_mmf(oldMap.val, trap_entries, overflow_checks)
                 ELSE NotRun
    /\ pc' = "done"
    /\ UNCHANGED <<tool, full, src, cat, msfE, convVars, readVars, vrfy1, engHdr, engDec, oldMap, run, pf, sh, walk>>

\* one iteration of the loop that assigns data_offset and data_length and
\* appends the frame's plane, for frame cat.i (0-based) of a large file
ConcatStep ==
    /\ tool = "big" /\ pc = "concat"
    /\ cat' = concat_step(src, cat)
    /\ pc' = IF cat.i + 1 >= mpc_fields(src).frame_count THEN "done" ELSE "concat"
    /\ UNCHANGED <<tool, full, src, extVars, msfE, convVars, readVars>>

(***************************************************************************)
(* The command-line tools: how main ends for a run over one file.  failed  *)
(* is the count main prints, code the exit code of the process (-1: the    *)
(* process was aborted by a panic).                                        *)
(***************************************************************************)
\* what can go wrong around the conversion of the file
Faults == {"none", "usage", "directory", "read", "write"}

Ended(failed, code) == [failed |-> failed, code |-> code]

\* main of asf2msf: read, convert_asf_to_msf, write; counts, prints, returns
asf2msf_main(args_ok, dir_ok, read_ok, converted, write_ok) ==
    IF ~args_ok THEN Ended(0, 1)
    ELSE IF ~dir_ok THEN Ended(0, 1)
    ELSE IF ~read_ok THEN Ended(1, 0)
    ELSE IF converted.tag = "Panic" THEN Ended(0, -1)
    ELSE IF ~IsSome(converted) THEN Ended(1, 0)
    ELSE IF ~write_ok THEN Ended(1, 0)
    ELSE Ended(0, 0)

\* main of mpc2msf: read, convert_mpc_to_msf, write; counts, prints, returns
mpc2msf_main(args_ok, dir_ok, read_ok, converted, write_ok) ==
    IF ~args_ok THEN Ended(0, 1)
    ELSE IF ~dir_ok THEN Ended(0, 1)
    ELSE IF ~read_ok THEN Ended(1, 0)
    ELSE IF converted.tag = "Panic" THEN Ended(0, -1)
    ELSE IF ~IsSome(converted) THEN Ended(1, 0)
    ELSE IF ~write_ok THEN Ended(1, 0)
    ELSE Ended(0, 0)

\* main of map2mmf: read, parse_old_map, convert_map_to_mmf, write; counts,
\* prints, returns
map2mmf_main(args_ok, dir_ok, read_ok, map_data, mmf_data, write_ok) ==
    IF ~args_ok THEN Ended(0, 1)
    ELSE IF ~dir_ok THEN Ended(0, 1)
    ELSE IF ~read_ok THEN Ended(1, 0)
    ELSE IF ~IsSome(map_data) THEN Ended(1, 0)
    ELSE IF mmf_data.tag = "Panic" THEN Ended(0, -1)
    ELSE IF ~write_ok THEN Ended(1, 0)
    ELSE Ended(0, 0)

\* main of the converter's verify: a directory that does not exist holds no
\* files; a file without its .msf is skipped; exit(1) when failed > 0
verify_main(args_ok, dir_ok, msf_exists, read_ok, asf_result, msf_result) ==
    LET f == IF ~dir_ok \/ ~msf_exists THEN 0
             ELSE IF ~read_ok THEN 1
             ELSE IF IsSome(asf_result) /\ IsSome(msf_result)
                     /\ asf_result.val = msf_result.val THEN 0
             ELSE 1
    IN IF ~args_ok THEN Ended(0, 1)
       ELSE IF dir_ok /\ msf_exists /\ read_ok
               /\ (asf_result.tag = "Panic" \/ msf_result.tag = "Panic")
       THEN Ended(0, -1)
       ELSE Ended(f, IF f > 0 THEN 1 ELSE 0)

\* the tools that take the files of a tool chain
Bins(t) ==
    IF t = "asf" THEN {"asf2msf", "verify"}
    ELSE IF t = "mpc" THEN {"mpc2msf"}
    ELSE {"map2mmf"}

\* the tool's process ends; verify writes nothing
MainExit ==
    /\ tool \in {"asf", "mpc", "map"} /\ pc = "done"
    /\ \E bin \in Bins(tool), fault \in Faults :
          /\ bin = "verify" => fault # "write"
          /\ run' = LET args_ok == fault # "usage"
                        dir_ok == fault # "directory"
                        read_ok == fault # "read"
                        write_ok == fault # "write"
                        end ==
                          IF bin = "asf2msf"
                          THEN asf2msf_main(args_ok, dir_ok, read_ok, msf, write_ok)
                          ELSE IF bin = "mpc2msf"
                          THEN mpc2msf_main(args_ok, dir_ok, read_ok, msf, write_ok)
                          ELSE IF bin = "map2mmf"
                          THEN map2mmf_main(args_ok, dir_ok, read_ok, oldMap, mmf, write_ok)
                          ELSE verify_main(args_ok, dir_ok, IsSome(msf), read_ok,
                                           srcDec, msfDec)
                    IN [tag |-> "Some",
                        val |-> [bin |-> bin, fault |-> fault,
                                 failed |-> end.failed, code |-> end.code]]
    /\ pc' = "exited"
    /\ UNCHANGED <<tool, full, src, cat, msfE, convVars, readVars, vrfy1, engHdr, engDec, oldMap, mmf, pf, sh, walk>>

Next ==
    \/ ConcatStep
    \/ ParseHeader
    \/ DecodeFrames
    \/ ReEncode
    \/ DecodeAgain
    \/ DecodeTiles
    \/ VerifyMsf
    \/ VerifyMsf1
    \/ ParseMap
    \/ ConvertMap
    \/ ConvertMpc
    \/ ConvertMpcFull
    \/ VerifyDecodeMpc
    \/ DecodeIndividual
    \/ EngineParseMpc
    \/ EngineDecodeMpc
    \/ ConvertAsf
    \/ ConvertAsfFull
    \/ EncodeAsf
    \/ VerifyDecodeAsf
    \/ VerifyDecodeMsf
    \/ EngineParseAsf
    \/ EngineDecodeAsf
    \/ MainExit

Spec == Init /\ [][Next]_vars


(***************************************************************************)
(* The extension-chunk walk of the engine's MSF decoders, pass by pass     *)
(***************************************************************************)
\* One pass of the `loop` from ext_off, a 32-bit usize (values from 2^31 up
\* appear as value - 2^32): "none" is `return 0`, "blob" the break at the
\* end sentinel, "panic" a slice index out of range, "walking" the next pass.
chunk_walk(data, ext_off) ==
    IF ext_off < -8 THEN [status |-> "none", ext_off |-> ext_off]
    ELSE IF ext_off < 0 THEN [status |-> "panic", ext_off |-> ext_off]
    ELSE IF ext_off + 8 > Len(data) THEN [status |-> "none", ext_off |-> ext_off]
    ELSE IF Slice(data, ext_off, ext_off + 4) = CHUNK_END
    THEN [status |-> "blob", ext_off |-> ext_off + 8]
    ELSE [status |-> "walking",
          ext_off |-> WrapAdd(ext_off + 8, U32AtUsize(data, ext_off + 4))]

\* chunk areas whose lengths make the 32-bit offset wrap: 2^32 - 1, 2^32 - 8,
\* 2^32 - 24 (back into the frame table), 2^31, and a wrap after a plain chunk
WrapAreas ==
    {Chunk(<<65, 66, 67, 68>>, <<255, 255, 255, 255>>, <<>>) \o END_SENTINEL,
     Chunk(<<65, 66, 67, 68>>, <<248, 255, 255, 255>>, <<>>) \o END_SENTINEL,
     Chunk(<<65, 66, 67, 68>>, <<232, 255, 255, 255>>, <<>>) \o END_SENTINEL,
     Chunk(<<65, 66, 67, 68>>, <<0, 0, 0, 128>>, <<>>) \o END_SENTINEL,
     Chunk(<<65, 66, 67, 68>>, <<1, 0, 0, 0>>, <<7>>)
         \o Chunk(<<69, 70, 71, 72>>, <<239, 255, 255, 255>>, <<>>) \o END_SENTINEL}

WalkFiles ==
    MsfFilesOf(Indexed8) \cup ChunkFiles
        \cup {WithChunks(MsfFile(MSF1, 0, Rgba8, [i \in 1..3 |-> <<1, 2, 3, 4>>]), area) :
                 area \in WrapAreas}

WalkInit ==
    /\ tool = "none" /\ pc = "done" /\ full = <<>>
    /\ msf = NotRun /\ msfFull = NotRun /\ msfE = NotRun /\ tidx = -1
    /\ srcDec = NotRun /\ msfDec = NotRun
    /\ hdr = NotRun /\ canvas = NotRun /\ canvas2 = NotRun /\ indiv = NotRun
    /\ vrfy = NotRun /\ cat = CatInit
    /\ vrfy1 = NotRun /\ engHdr = NotRun /\ engDec = NotRun /\ oldMap = NotRun
    /\ mmf = NotRun /\ run = NotRun
    /\ pf = NotRun /\ sh = NotRun
    /\ \E f \in WalkFiles :
          /\ src = f
          /\ walk = Some([status |-> "walking", ext_off |-> TableEnd(f), odd |-> FALSE])

\* one pass of the loop; odd tells whether the passes made are odd in number
ChunkWalk ==
    /\ IsSome(walk) /\ walk.val.status = "walking"
    /\ LET pass == chunk_walk(src, walk.val.ext_off)
       IN  walk' = Some([status |-> pass.status, ext_off |-> pass.ext_off,
                         odd |-> ~walk.val.odd])
    /\ UNCHANGED <<fileVars, pf, sh>>

WalkNext == ChunkWalk

WalkSpec == WalkInit /\ [][WalkNext]_vars

\* the loop has no wait in it: a pass that can be made is made
WalkLive == WalkSpec /\ WF_vars(ChunkWalk)

(***************************************************************************)
(* The engine's path finder (pathfinder.rs)                                *)
(***************************************************************************)
PathTypes ==
    {"PathOneStep", "SimpleMaxNpcTry", "PerfectMaxNpcTry", "PerfectMaxPlayerTry",
     "PathStraightLine"}

Vec2(x, y) == [x |-> x, y |-> y]

\* pixel position of a tile, and the distance of two tiles in hundredths of
\* a pixel (the code computes it in f64; the integer is the floor)
to_pixel(t) == [x |-> (t.x - t.y) * 32, y |-> (t.x + t.y) * 16]

RECURSIVE ISqrtIn(_, _, _)
ISqrtIn(n, lo, hi) ==
    IF lo >= hi THEN lo
    ELSE LET mid == (lo + hi + 1) \div 2
         IN  IF mid * mid <= n THEN ISqrtIn(n, mid, hi) ELSE ISqrtIn(n, lo, mid - 1)

ISqrt(n) == ISqrtIn(n, 0, 46340)

pixel_distance(a, b) ==
    LET dx == to_pixel(b).x - to_pixel(a).x
        dy == to_pixel(b).y - to_pixel(a).y
    IN  ISqrt((dx * dx + dy * dy) * 10000)

\* A PathFinder: the map size and the two bitmaps, each as its length in
\* bytes and the set of bit indices that are set.
PathFinder(w, h, len, bits, hard_len, hard_bits) ==
    [map_width |-> w, map_height |-> h,
     obstacle_bitmap |-> [len |-> len, bits |-> bits],
     hard_obstacle_bitmap |-> [len |-> hard_len, bits |-> hard_bits]]

bitmap_test(m, bitmap, t) ==
    IF t.x < 0 \/ t.y < 0 \/ t.x >= m.map_width \/ t.y >= m.map_height THEN TRUE
    ELSE LET index == t.y * m.map_width + t.x
         IN  IF index \div 8 < bitmap.len THEN index \in bitmap.bits ELSE TRUE

is_obstacle(m, t) == bitmap_test(m, m.obstacle_bitmap, t)

is_hard_obstacle(m, t) == bitmap_test(m, m.hard_obstacle_bitmap, t)

\* the eight neighbours, by direction index 0..7 (0 south, then clockwise
\* on the screen: south-west, west, north-west, north, north-east, east,
\* south-east)
NeighborDx == <<0, -1, -1, -1, 0, 1, 1, 1>>
NeighborDy == <<1, 1, 0, -1, -1, -1, 0, 1>>

get_neighbors(pos) ==
    [i \in 0..7 |-> Vec2(pos.x + NeighborDx[i + 1], pos.y + NeighborDy[i + 1])]

can_move_in_direction(direction, can_move_count) ==
    CASE can_move_count = 1 -> direction = 0
      [] can_move_count = 2 -> direction \in {0, 4}
      [] can_move_count = 4 -> direction \in {0, 2, 4, 6}
      [] OTHER -> direction < can_move_count

\* a diagonal neighbour that is a hard obstacle also blocks the two
\* straight directions next to it
diagonal_blocks(i) ==
    CASE i = 1 -> {0, 2}
      [] i = 3 -> {2, 4}
      [] i = 5 -> {4, 6}
      [] i = 7 -> {0, 6}
      [] OTHER -> {}

no_blocked_directions(m, neighbors) == {}

get_blocked_directions(m, neighbors) ==
    LET hit == {i \in 0..7 : is_obstacle(m, neighbors[i])}
    IN  hit \cup UNION {diagonal_blocks(i) : i \in {j \in hit : is_hard_obstacle(m, neighbors[j])}}

\* (the code returns them in direction order; the order only decides the
\* order of pushes with equal cost, which the heap does not keep)
find_valid_neighbors(m, pos, destination, can_move_count) ==
    LET neighbors == get_neighbors(pos)
        blocked == get_blocked_directions(m, neighbors)
    IN  {neighbors[i] : i \in {j \in 0..7 :
            \/ neighbors[j] = destination
            \/ j \notin blocked /\ can_move_in_direction(j, can_move_count)}}

\* the direction index of a pixel delta: the octant of atan2(dy, dx), whose
\* borders at 22.5 and 67.5 degrees are the slopes sqrt(2) - 1 and sqrt(2) + 1
get_direction_from_delta(dx, dy) ==
    LET a == IF dx < 0 THEN -dx ELSE dx
        b == IF dy < 0 THEN -dy ELSE dy
        flat == (a + b) * (a + b) < 2 * a * a
        steep == b > a /\ (b - a) * (b - a) > 2 * a * a
    IN  IF dx = 0 /\ dy = 0 THEN 0
        ELSE IF flat THEN (IF dx > 0 THEN 6 ELSE 2)
        ELSE IF steep THEN (IF dy > 0 THEN 0 ELSE 4)
        ELSE IF dy > 0 THEN (IF dx > 0 THEN 7 ELSE 1)
        ELSE (IF dx < 0 THEN 3 ELSE 5)

signum(n) == IF n > 0 THEN 1 ELSE IF n < 0 THEN -1 ELSE 0

\* a path is the flat list x1, y1, x2, y2, ...
RECURSIVE straight_line_from(_, _)
straight_line_from(current, end) ==
    IF current = end THEN <<end.x, end.y>>
    ELSE <<current.x, current.y>>
            \o straight_line_from(
                  Vec2(IF current.x # end.x THEN current.x + signum(end.x - current.x)
                       ELSE current.x,
                       IF current.y # end.y THEN current.y + signum(end.y - current.y)
                       ELSE current.y),
                  end)

straight_line_without_end(start, end) ==
    LET line == straight_line_from(start, end)
    IN  SubSeq(line, 1, Len(line) - 2)

find_straight_line(start, end) == straight_line_from(start, end)

\* the points from current back to start along came_from, start left out
RECURSIVE walk_back(_, _, _)
walk_back(came_from, start, current) ==
    IF current = start THEN <<>>
    ELSE <<current>>
            \o (IF current \in DOMAIN came_from
                THEN walk_back(came_from, start, came_from[current])
                ELSE <<>>)

reconstruct_path(came_from, start, end) ==
    IF end \notin DOMAIN came_from THEN <<>>
    ELSE LET points == walk_back(came_from, start, end) \o <<start>>
             n == Len(points)
         IN  [k \in 1..(2 * n) |->
                 IF k % 2 = 1 THEN points[n - (k - 1) \div 2].x
                 ELSE points[n - (k - 1) \div 2].y]


\* One find_path call: its arguments and the locals of the search it runs.
\* phase is the place in the code: "call" (find_path entered), "step",
\* "simple", "perfect" (at the head of that search's loop), "done" (returned
\* path).
PathNode(tile, f_cost) == [tile |-> tile, f_cost |-> f_cost]

PathCall(m, start, end, path_type, can_move_count) ==
    [map |-> m, start |-> start, end |-> end, path_type |-> path_type,
     can_move_count |-> can_move_count, phase |-> "call", max_try |-> 0,
     frontier |-> EmptyBag, came_from |-> <<>>, cost_so_far |-> <<>>, try_count |-> 0,
     current |-> start, remaining |-> 0, visited |-> {}, path |-> <<>>]

\* the call returns path; its locals are dropped
Returned(q, path) ==
    [PathCall(q.map, q.start, q.end, q.path_type, q.can_move_count)
        EXCEPT !.phase = "done", !.max_try = q.max_try, !.path = path]

max_try_of(path_type) ==
    CASE path_type = "PathOneStep" -> 10
      [] path_type = "SimpleMaxNpcTry" -> 100
      [] path_type = "PerfectMaxNpcTry" -> 100
      [] path_type = "PerfectMaxPlayerTry" -> 500
      [] OTHER -> 0

\* find_path up to the search it hands over to
find_path_to_search(q) ==
    CASE q.path_type = "PathStraightLine" ->
            Returned(q, find_straight_line(q.start, q.end))
      [] q.path_type = "PathOneStep" ->
            [q EXCEPT !.phase = "step", !.max_try = max_try_of(q.path_type),
                      !.path = <<q.start.x, q.start.y>>, !.current = q.start,
                      !.remaining = max_try_of(q.path_type)]
      [] q.path_type = "SimpleMaxNpcTry" ->
            [q EXCEPT !.phase = "simple", !.max_try = max_try_of(q.path_type),
                      !.frontier = SetToBag({PathNode(q.start, 0)})]
      [] OTHER ->
            [q EXCEPT !.phase = "perfect", !.max_try = max_try_of(q.path_type),
                      !.frontier = SetToBag({PathNode(q.start, 0)}),
                      !.cost_so_far = (q.start :> 0)]

find_path_any_end(q) == find_path_to_search(q)

find_path(q) ==
    IF q.start = q.end THEN Returned(q, <<>>)
    ELSE IF is_obstacle(q.map, q.end) THEN Returned(q, <<>>)
    ELSE find_path_to_search(q)

\* two f64 costs nearer than this many hundredths of a pixel are taken as
\* possibly equal, or ordered either way, once rounded
CostTolerance == 10

\* the nodes BinaryHeap::pop can give: one of the least f_cost
heap_top(frontier) ==
    {n \in BagToSet(frontier) :
        \A o \in BagToSet(frontier) : n.f_cost <= o.f_cost + CostTolerance}

\* one iteration of find_path_step's loop, with the return after the loop
find_path_step(q) ==
    LET finish(path) == Returned(q, IF Len(path) < 4 THEN <<>> ELSE path)
        current_pixel == to_pixel(q.current)
        end_pixel == to_pixel(q.end)
        target_dir == get_direction_from_delta(end_pixel.x - current_pixel.x,
                                               end_pixel.y - current_pixel.y)
        neighbors == get_neighbors(q.current)
        blocked == get_blocked_directions(q.map, neighbors)
        direction_order ==
            [k \in 1..8 |-> (target_dir + <<0, 1, 7, 2, 6, 3, 5, 4>>[k]) % 8]
        open == {k \in 1..8 :
                    /\ direction_order[k] \notin blocked
                    /\ neighbors[direction_order[k]] \notin q.visited
                    /\ can_move_in_direction(direction_order[k], q.can_move_count)}
        next == neighbors[direction_order[SetMin(open)]]
        path == q.path \o <<next.x, next.y>>
    IN  IF q.remaining <= 0 THEN finish(q.path)
        ELSE IF open = {} THEN finish(q.path)
        ELSE IF next = q.end THEN finish(path)
        ELSE [q EXCEPT !.current = next, !.path = path,
                       !.visited = q.visited \cup {next},
                       !.remaining = q.remaining - 1]

\* one iteration of find_path_simple's loop when pop gave node, with the
\* reconstruct_path after the loop
find_path_simple(q, node) ==
    LET rest == q.frontier (-) SetToBag({node})
        fresh == {t \in find_valid_neighbors(q.map, node.tile, q.end, q.can_move_count) :
                     t \notin DOMAIN q.came_from}
    IN  IF q.try_count >= q.max_try \/ node.tile = q.end
        THEN Returned(q, reconstruct_path(q.came_from, q.start, q.end))
        ELSE [q EXCEPT !.try_count = q.try_count + 1,
                       !.frontier = rest (+) SetToBag({PathNode(t, pixel_distance(t, q.end)) :
                                                         t \in fresh}),
                       !.came_from = [t \in fresh |-> node.tile] @@ q.came_from]

\* one iteration of find_path_perfect's loop when pop gave node and the
\* neighbours in lower, of those whose new cost is about their old one, were
\* found cheaper
find_path_perfect(q, node, lower) ==
    LET rest == q.frontier (-) SetToBag({node})
        new_cost(t) == q.cost_so_far[node.tile] + pixel_distance(node.tile, t)
        better == lower \cup
            {t \in find_valid_neighbors(q.map, node.tile, q.end, q.can_move_count) :
                \/ t \notin DOMAIN q.cost_so_far
                \/ new_cost(t) < q.cost_so_far[t] - CostTolerance}
    IN  IF (q.max_try # -1 /\ q.try_count >= q.max_try) \/ node.tile = q.end
        THEN Returned(q, reconstruct_path(q.came_from, q.start, q.end))
        ELSE [q EXCEPT !.try_count = q.try_count + 1,
                       !.frontier = rest (+) SetToBag({PathNode(t, new_cost(t)
                                                                    + pixel_distance(t, q.end)) :
                                                         t \in better}),
                       !.cost_so_far = [t \in better |-> new_cost(t)] @@ q.cost_so_far,
                       !.came_from = [t \in better |-> node.tile] @@ q.came_from]

\* the neighbours whose new cost is within the tolerance of their old one
about_equal(q, node) ==
    {t \in find_valid_neighbors(q.map, node.tile, q.end, q.can_move_count) :
        /\ t \in DOMAIN q.cost_so_far
        /\ q.cost_so_far[node.tile] + pixel_distance(node.tile, t)
              >= q.cost_so_far[t] - CostTolerance
        /\ q.cost_so_far[node.tile] + pixel_distance(node.tile, t)
              <= q.cost_so_far[t] + CostTolerance}


\* The calls that are made: small maps with soft and hard obstacles, with
\* bitmaps of the size new() gives and shorter ones, from a few start tiles
\* to every tile of the map and to tiles outside it.
MapWidth == 4
MapHeight == 3

\* the bit indices of a set of tiles
BitsOf(tiles) == {t.y * MapWidth + t.x : t \in tiles}

\* <<obstacle tiles, hard obstacle tiles>>
ObstacleTiles ==
    {<<{}, {}>>,
     <<{Vec2(1, 1)}, {}>>,
     <<{Vec2(1, 1)}, {Vec2(1, 1)}>>,
     <<{Vec2(1, 0), Vec2(1, 1)}, {Vec2(1, 0)}>>,
     <<{Vec2(1, 0), Vec2(0, 1)}, {Vec2(1, 0), Vec2(0, 1)}>>,
     <<{Vec2(2, 0), Vec2(2, 1), Vec2(2, 2)}, {}>>,
     <<{Vec2(1, 0), Vec2(2, 1)}, {Vec2(2, 2)}>>}

PathMaps ==
    LET size == (MapWidth * MapHeight + 7) \div 8
    IN  {PathFinder(MapWidth, MapHeight, size, BitsOf(b[1]), size, BitsOf(b[2])) :
            b \in ObstacleTiles}
            \cup {PathFinder(MapWidth, MapHeight, 1, BitsOf({Vec2(1, 1)}), 0, {})}

PathStarts == {Vec2(0, 0), Vec2(1, 2), Vec2(1, 1)}

PathEnds ==
    {Vec2(x, y) : x \in 0..(MapWidth - 1), y \in 0..(MapHeight - 1)}
        \cup {Vec2(-1, 0), Vec2(MapWidth, 1)}

MoveCounts == {0, 1, 2, 4, 8}

PathInit ==
    /\ tool = "none" /\ pc = "done" /\ full = <<>> /\ src = <<>>
    /\ msf = NotRun /\ msfFull = NotRun /\ msfE = NotRun /\ tidx = -1
    /\ srcDec = NotRun /\ msfDec = NotRun
    /\ hdr = NotRun /\ canvas = NotRun /\ canvas2 = NotRun /\ indiv = NotRun
    /\ vrfy = NotRun /\ cat = CatInit
    /\ vrfy1 = NotRun /\ engHdr = NotRun /\ engDec = NotRun /\ oldMap = NotRun
    /\ mmf = NotRun /\ run = NotRun
    /\ sh = NotRun /\ walk = NotRun
    /\ \E m \in PathMaps, start \in PathStarts, end \in PathEnds,
          path_type \in PathTypes, can_move_count \in MoveCounts :
            pf = Some(PathCall(m, start, end, path_type, can_move_count))

\* find_path is entered: it returns at once or starts a search
FindPath ==
    /\ IsSome(pf) /\ pf.val.phase = "call"
    /\ pf' = Some(find_path(pf.val))
    /\ UNCHANGED <<fileVars, sh, walk>>

FindPathStep ==
    /\ IsSome(pf) /\ pf.val.phase = "step"
    /\ pf' = Some(find_path_step(pf.val))
    /\ UNCHANGED <<fileVars, sh, walk>>

FindPathSimple ==
    /\ IsSome(pf) /\ pf.val.phase = "simple"
    /\ IF pf.val.frontier = EmptyBag
       THEN pf' = Some(Returned(pf.val, reconstruct_path(pf.val.came_from, pf.val.start,
                                                         pf.val.end)))
       ELSE \E node \in heap_top(pf.val.frontier) :
                pf' = Some(find_path_simple(pf.val, node))
    /\ UNCHANGED <<fileVars, sh, walk>>

FindPathPerfect ==
    /\ IsSome(pf) /\ pf.val.phase = "perfect"
    /\ IF pf.val.frontier = EmptyBag
       THEN pf' = Some(Returned(pf.val, reconstruct_path(pf.val.came_from, pf.val.start,
                                                         pf.val.end)))
       ELSE \E node \in heap_top(pf.val.frontier) :
                \E lower \in SUBSET about_equal(pf.val, node) :
                    pf' = Some(find_path_perfect(pf.val, node, lower))
    /\ UNCHANGED <<fileVars, sh, walk>>

PathNext ==
    \/ FindPath
    \/ FindPathStep
    \/ FindPathSimple
    \/ FindPathPerfect

PathSpec == PathInit /\ [][PathNext]_vars


(***************************************************************************)
(* The engine's spatial hash (collision.rs)                                *)
(***************************************************************************)
\* A SpatialHash: cell_size, grid (cell -> the Vec of ids in it) and entities
\* (id -> Entity).  Positions, radii and cell sizes are f32 values that are
\* whole numbers, on which the code's f32 arithmetic is exact.
Entity(id, x, y, radius, group) ==
    [id |-> id, x |-> x, y |-> y, radius |-> radius, group |-> group]

new(cell_size) ==
    [cell_size |-> Max2(cell_size, 1), grid |-> <<>>, entities |-> <<>>]

get_cell(s, x, y) == <<x \div s.cell_size, y \div s.cell_size>>

get_cells_in_radius(s, x, y, radius) ==
    LET min_cell == get_cell(s, x - radius, y - radius)
        max_cell == get_cell(s, x + radius, y + radius)
        nx == Max2(max_cell[1] - min_cell[1] + 1, 0)
        ny == Max2(max_cell[2] - min_cell[2] + 1, 0)
    IN  [k \in 1..(nx * ny) |->
            <<min_cell[1] + ((k - 1) \div ny), min_cell[2] + ((k - 1) % ny)>>]

\* only the entity's own cell
own_cell_only(s, x, y, radius) == <<get_cell(s, x, y)>>

\* cell_entities.retain(|&eid| eid != id) on the cell, if the grid has it
grid_retain(grid, cell, id) ==
    IF cell \in DOMAIN grid
    THEN [grid EXCEPT ![cell] = SelectSeq(@, LAMBDA eid : eid # id)]
    ELSE grid

\* grid.entry(cell).or_default().push(id)
grid_push(grid, cell, id) ==
    IF cell \in DOMAIN grid
    THEN [grid EXCEPT ![cell] = Append(@, id)]
    ELSE (cell :> <<id>>) @@ grid

clear(s) == [s EXCEPT !.grid = <<>>, !.entities = <<>>]

upsert(s, id, x, y, radius, group) ==
    LET grid == IF id \in DOMAIN s.entities
                THEN grid_retain(s.grid, get_cell(s, s.entities[id].x, s.entities[id].y), id)
                ELSE s.grid
    IN  [s EXCEPT !.entities = (id :> Entity(id, x, y, radius, group)) @@ s.entities,
                  !.grid = grid_push(grid, get_cell(s, x, y), id)]

remove_keeping_grid(s, id) ==
    [s EXCEPT !.entities = [e \in DOMAIN s.entities \ {id} |-> s.entities[e]]]

remove(s, id) ==
    IF id \in DOMAIN s.entities
    THEN [s EXCEPT !.entities = [e \in DOMAIN s.entities \ {id} |-> s.entities[e]],
                   !.grid = grid_retain(s.grid,
                                        get_cell(s, s.entities[id].x, s.entities[id].y), id)]
    ELSE s

\* positions is the flat list id1, x1, y1, id2, x2, y2, ...; a last chunk of
\* fewer than three values is skipped
RECURSIVE batch_update_positions(_, _)
batch_update_positions(s, positions) ==
    IF Len(positions) < 3 THEN s
    ELSE LET id == positions[1]
             x == positions[2]
             y == positions[3]
             moved ==
                IF id \in DOMAIN s.entities
                THEN [s EXCEPT
                        !.grid = grid_push(
                            grid_retain(s.grid,
                                        get_cell(s, s.entities[id].x, s.entities[id].y), id),
                            get_cell(s, x, y), id),
                        !.entities = [@ EXCEPT ![id] = [@ EXCEPT !.x = x, !.y = y]]]
                ELSE s
         IN  batch_update_positions(moved, SubSeq(positions, 4, Len(positions)))

count(s) == Cardinality(DOMAIN s.entities)

\* the ids stored in the cells, cell by cell (stored: the indices of the
\* cells the grid has)
RECURSIVE ids_in_cells(_, _, _)
ids_in_cells(s, cells, stored) ==
    IF stored = {} THEN <<>>
    ELSE LET k == SetMin(stored)
         IN  s.grid[cells[k]] \o ids_in_cells(s, cells, stored \ {k})

\* the <<entity id, other id>> pairs detect_all_collisions looks at, in its
\* order, when entities.values() gives the entities in the order ids
RECURSIVE looked_at(_, _)
looked_at(s, ids) ==
    IF ids = <<>> THEN <<>>
    ELSE LET entity == s.entities[Head(ids)]
             cells == get_cells_in_radius(s, entity.x, entity.y, entity.radius)
             others == ids_in_cells(s, cells,
                                    {k \in 1..Len(cells) : cells[k] \in DOMAIN s.grid})
         IN  [k \in 1..Len(others) |-> <<entity.id, others[k]>>]
                \o looked_at(s, Tail(ids))

RECURSIVE collisions_of(_, _, _)
collisions_of(s, pairs, checked) ==
    IF pairs = <<>> THEN <<>>
    ELSE LET id == Head(pairs)[1]
             other_id == Head(pairs)[2]
             pair == <<Min2(id, other_id), Max2(id, other_id)>>
         IN  IF id >= other_id \/ pair \in checked
             THEN collisions_of(s, Tail(pairs), checked)
             ELSE (IF other_id \in DOMAIN s.entities
                   THEN LET entity == s.entities[id]
                            other == s.entities[other_id]
                            dx == other.x - entity.x
                            dy == other.y - entity.y
                            combined_radius == entity.radius + other.radius
                        IN  IF dx * dx + dy * dy <= combined_radius * combined_radius
                            THEN <<id, other_id>>
                            ELSE <<>>
                   ELSE <<>>)
                     \o collisions_of(s, Tail(pairs), checked \cup {pair})

detect_all_collisions(s, ids) == collisions_of(s, looked_at(s, ids), {})


\* The hash that is driven: a few entities on a few positions, with a small
\* and a large radius, in grids of three cell sizes (0 is raised to 1).
EntityIds == {1, 2, 3}
Positions == {<<0, 0>>, <<8, 0>>, <<-3, 5>>}
Radii == {1, 12}
CellSizes == {0, 4, 16}

\* one or two whole chunks, and a chunk cut short after them
BatchInputs ==
    LET chunks == {<<id, p[1], p[2]>> : id \in EntityIds, p \in Positions}
    IN  chunks \cup {a \o b : a \in chunks, b \in chunks}
               \cup {a \o <<a[1], a[2]>> : a \in chunks}

\* the orders HashMap::values can give the stored entities in
Orders(ids) ==
    {o \in [1..Cardinality(ids) -> ids] : \A i, j \in 1..Cardinality(ids) : o[i] = o[j] => i = j}

\* sh: the hash, the ids upserted and not removed since the last clear, and
\* what detect_all_collisions returned if it was the last call
HashState(hash, upserted, collisions) ==
    [hash |-> hash, upserted |-> upserted, collisions |-> collisions]

HashInit ==
    /\ tool = "none" /\ pc = "done" /\ full = <<>> /\ src = <<>>
    /\ msf = NotRun /\ msfFull = NotRun /\ msfE = NotRun /\ tidx = -1
    /\ srcDec = NotRun /\ msfDec = NotRun
    /\ hdr = NotRun /\ canvas = NotRun /\ canvas2 = NotRun /\ indiv = NotRun
    /\ vrfy = NotRun /\ cat = CatInit
    /\ vrfy1 = NotRun /\ engHdr = NotRun /\ engDec = NotRun /\ oldMap = NotRun
    /\ mmf = NotRun /\ run = NotRun
    /\ pf = NotRun /\ walk = NotRun
    /\ \E cell_size \in CellSizes : sh = Some(HashState(new(cell_size), {}, NotRun))

Upsert ==
    /\ IsSome(sh)
    /\ \E id \in EntityIds, p \in Positions, radius \in Radii :
          sh' = Some(HashState(upsert(sh.val.hash, id, p[1], p[2], radius, 0),
                               sh.val.upserted \cup {id}, NotRun))
    /\ UNCHANGED <<fileVars, pf, walk>>

Remove ==
    /\ IsSome(sh)
    /\ \E id \in EntityIds :
          sh' = Some(HashState(remove(sh.val.hash, id), sh.val.upserted \ {id}, NotRun))
    /\ UNCHANGED <<fileVars, pf, walk>>

BatchUpdatePositions ==
    /\ IsSome(sh)
    /\ \E positions \in BatchInputs :
          sh' = Some(HashState(batch_update_positions(sh.val.hash, positions),
                               sh.val.upserted, NotRun))
    /\ UNCHANGED <<fileVars, pf, walk>>

Clear ==
    /\ IsSome(sh)
    /\ sh' = Some(HashState(clear(sh.val.hash), {}, NotRun))
    /\ UNCHANGED <<fileVars, pf, walk>>

DetectAllCollisions ==
    /\ IsSome(sh)
    /\ \E ids \in Orders(DOMAIN sh.val.hash.entities) :
          sh' = Some([sh.val EXCEPT !.collisions = Some(detect_all_collisions(sh.val.hash, ids))])
    /\ UNCHANGED <<fileVars, pf, walk>>

HashNext ==
    \/ Upsert
    \/ Remove
    \/ BatchUpdatePositions
    \/ Clear
    \/ DetectAllCollisions

HashSpec == HashInit /\ [][HashNext]_vars


(***************************************************************************)
(* Claims                                                                  *)
(***************************************************************************)

\* C1: for every ASF input that convert_asf_to_msf accepts, the verifier's
\* decode of the produced MSF has the same canvas width, canvas height and
\* frame count as its decode of the ASF, and every frame's RGBA buffer is
\* byte-for-byte equal.
C1_AsfRoundTrip ==
    (tool = "asf" /\ pc = "done" /\ IsSome(msf))
        => /\ IsSome(srcDec)
           /\ IsSome(msfDec)
           /\ msfDec.val = srcDec.val


\* C2: for every MPC input that convert_mpc_to_msf accepts, decoding the
\* produced MSF frame by frame gives, for every frame, the width, height and
\* RGBA buffer that decoding the MPC gives (an empty frame being one
\* transparent pixel on both sides), also when opaque pixels use palette
\* indices at or beyond the source colour count.
C2_MpcRoundTrip ==
    (tool = "mpc" /\ pc = "done" /\ IsSome(msf))
        => /\ IsSome(srcDec)
           /\ IsSome(msfDec)
           /\ msfDec.val.count = Len(srcDec.val)
           /\ \A i \in 1..Len(srcDec.val) :
                 /\ msfDec.val.frame_sizes[i] = <<srcDec.val[i].width, srcDec.val[i].height>>
                 /\ msfDec.val.frames[i] = srcDec.val[i].pixels


\* the frame table and the uncompressed blob of a written file, read back
\* under the file's own magic
Written(m) == msf_open(m, SubSeq(m, 1, 4))

RECURSIVE LengthSum(_, _)
\* sum of data_length over the first k entries
LengthSum(entries, k) ==
    IF k = 0 THEN 0 ELSE LengthSum(entries, k - 1) + entries[k].data_length

IsEmptyEntry(e) == e.width = 0 \/ e.height = 0

FrameTableOk(m) ==
    LET f == Written(m)
    IN /\ f.ok
       /\ \A i \in 1..f.frame_count :
             /\ f.entries[i].data_offset = LengthSum(f.entries, i - 1)
             /\ IsEmptyEntry(f.entries[i]) => f.entries[i].data_length = 0
       /\ LengthSum(f.entries, f.frame_count) = Len(f.blob)
       /\ \A i, j \in 1..f.frame_count :
             (i < j /\ ~IsEmptyEntry(f.entries[i]) /\ ~IsEmptyEntry(f.entries[j]))
                 => f.entries[i].data_offset < f.entries[j].data_offset

\* C3: in every MSF written by encode_msf, convert_asf_to_msf or
\* convert_mpc_to_msf, each entry's data_offset is the sum of the data_length
\* of the earlier entries, the data_length sum is the length of the
\* uncompressed blob, an empty frame has data_length 0 (so it carries the
\* running offset without advancing it), and data_offset is strictly
\* increasing across the non-empty frames.  For the large file the table
\* is followed entry by entry: the entry just assigned ends where the blob
\* ends (its data_offset is the sum of the earlier lengths), and its
\* data_offset is above that of the non-empty entry before it.
C3_FrameTable ==
    /\ IsSome(msf) => FrameTableOk(msf.val)
    /\ IsSome(msfFull) => FrameTableOk(msfFull.val)
    /\ IsSome(msfE) => FrameTableOk(msfE.val)
    /\ (tool = "big" /\ cat.i > 0) =>
          /\ WideAdd(cat.data_offset, cat.data_length) = cat.len
          /\ (cat.prev_any /\ cat.data_length # WideOf(0))
                => WideLt(cat.prev_offset, cat.data_offset)

\* the opaque pixels (pixel number -> colour index byte) of frame i
\* (1-based) as convert_mpc_to_msf reads the frame from the source
SourceOpaque(mpc_data, i) ==
    LET hd == mpc_fields(mpc_data)
        offsets_start == MPC_PALETTE_START + hd.color_count * 4
        data_offsets == mpc_data_offsets(mpc_data, offsets_start, hd.frame_count)
        ds == offsets_start + hd.frame_count * 4 + data_offsets[i]
        width == AsU16(get_u32_le(mpc_data, ds + 4))
        height == AsU16(get_u32_le(mpc_data, ds + 8))
    IN IF i > Len(data_offsets) THEN EmptyMap
       ELSE IF ds + 12 > Len(mpc_data) THEN EmptyMap
       ELSE IF width = 0 \/ height = 0 \/ width > MaxFrameSide \/ height > MaxFrameSide
       THEN EmptyMap
       ELSE mpc_opaque(mpc_data, ds, get_u32_le(mpc_data, ds), width, height)

\* the palette indices some opaque pixel of the file refers to
OpaqueIndices(mpc_data) ==
    UNION {{SourceOpaque(mpc_data, i)[p] : p \in DOMAIN SourceOpaque(mpc_data, i)} :
              i \in 1..mpc_fields(mpc_data).frame_count}

\* C5: in an MSF written by convert_mpc_to_msf, whatever the 32-bit width
\* and height values in the source frame headers, no pixel that is opaque in
\* the source is stored with the transparent index T as its index byte,
\* provided at least one of the 256 palette indices is not referenced by an
\* opaque pixel of the file.
C5_OpaqueNeverTransparent ==
    (tool = "mpc" /\ IsSome(msf) /\ (0..255) \ OpaqueIndices(src) # {})
        => LET f == Written(msf.val)
           IN \A i \in 1..f.frame_count :
                 \A p \in DOMAIN SourceOpaque(src, i) :
                    At(f.blob, f.entries[i].data_offset + p) # tidx


\* C8: in every MSF written from an ASF (by convert_asf_to_msf or by
\* asf_to_msf_input and encode_msf), for all 16-bit canvas sizes, each frame
\* entry has 0 <= offset_x, 0 <= offset_y, offset_x + width <= canvas_width
\* and offset_y + height <= canvas_height.
EntriesInCanvas(m) ==
    LET f == Written(m)
    IN /\ f.ok
       /\ \A i \in 1..f.frame_count :
             LET e == f.entries[i]
             IN /\ 0 <= e.offset_x
                /\ 0 <= e.offset_y
                /\ e.offset_x + e.width <= f.canvas_width
                /\ e.offset_y + e.height <= f.canvas_height

C8_EntryInsideCanvas ==
    tool = "asf" =>
        /\ IsSome(msf) => EntriesInCanvas(msf.val)
        /\ IsSome(msfFull) => EntriesInCanvas(msfFull.val)
        /\ IsSome(msfE) => EntriesInCanvas(msfE.val)


\* the colours of the source palette, as RGB with alpha 255
SourcePalette(mpc_data) == mpc_palette(mpc_data, mpc_fields(mpc_data).color_count)

\* C9: in the palette convert_mpc_to_msf writes, the entry at the
\* transparent index T is exactly (0,0,0,0); when T is at or beyond the
\* source colour count the palette is extended to T + 1 entries, the entries
\* between being (0,0,0,255); every other entry keeps the source RGB with
\* alpha 255.
C9_PaletteSynthesis ==
    (tool = "mpc" /\ IsSome(msf))
        => LET pal == msf_palette(msf.val)
               orig == SourcePalette(src)
           IN /\ tidx + 1 \in DOMAIN pal
              /\ pal[tidx + 1] = <<0, 0, 0, 0>>
              /\ Len(pal) = Max2(Len(orig), tidx + 1)
              /\ \A k \in 1..Len(pal) :
                    k # tidx + 1 =>
                        pal[k] = IF k <= Len(orig) THEN orig[k] ELSE <<0, 0, 0, 255>>


\* the colour index bytes the RLE streams of the scanned frames hold:
\* frames whose header is inside the file with both sides in 1..2048
ConsumedIndices(mpc_data) ==
    LET hd == mpc_fields(mpc_data)
        offsets_start == MPC_PALETTE_START + hd.color_count * 4
        data_offsets == mpc_data_offsets(mpc_data, offsets_start, hd.frame_count)
    IN UNION {LET ds == offsets_start + hd.frame_count * 4 + data_offsets[i]
                  wr == mpc_opaque(mpc_data, ds, get_u32_le(mpc_data, ds),
                                   get_u32_le(mpc_data, ds + 4), get_u32_le(mpc_data, ds + 8))
              IN IF scanned_frame(mpc_data, ds) THEN {wr[p] : p \in DOMAIN wr} ELSE {} :
                 i \in 1..Len(data_offsets)}

\* C10: find_transparent_index_mpc returns the smallest index in 0..255
\* that no consumed colour byte of a non-empty frame's RLE stream equals,
\* and 0 when all 256 indices are consumed.
C10_SmallestUnused ==
    (tool = "mpc" /\ tidx # -1)
        => LET used == ConsumedIndices(src)
           IN /\ tidx \in 0..255
              /\ (0..255) \ used # {} =>
                    /\ tidx \notin used
                    /\ \A k \in 0..(tidx - 1) : k \in used
              /\ (0..255) \ used = {} => tidx = 0

\* the fallback: every index is consumed and 0 is returned
C10_Witness ==
    /\ tool = "mpc" /\ tidx = 0 /\ pc = "done"
    /\ (0..255) \ ConsumedIndices(src) = {}


\* the frame count the source header declares
SourceFrames ==
    IF tool = "asf" THEN asf_fields(full).frame_count ELSE mpc_fields(full).frame_count

\* where frame i (1-based) of the uncut source sits: its index entry is
\* entry_at..entry_end, its data (for MPC: frame header and RLE) is
\* data_at..data_end
FramePlace(i) ==
    IF tool = "asf"
    THEN LET hd == asf_fields(full)
             at == ASF_PALETTE_START + 4 * Len(asf_palette(full, hd.color_count)) + 8 * (i - 1)
         IN [entry_at |-> at, entry_end |-> at + 8,
             data_at |-> get_i32_le(full, at),
             data_end |-> get_i32_le(full, at) + get_i32_le(full, at + 4)]
    ELSE LET hd == mpc_fields(full)
             at == MPC_PALETTE_START + hd.color_count * 4 + 4 * (i - 1)
             ds == MPC_PALETTE_START + hd.color_count * 4 + hd.frame_count * 4
                       + get_u32_le(full, at)
         IN [entry_at |-> at, entry_end |-> at + 4,
             data_at |-> ds, data_end |-> ds + get_u32_le(full, ds)]

\* frame i lies wholly before the cut
FrameBefore(i) ==
    FramePlace(i).entry_end <= Len(src) /\ FramePlace(i).data_end <= Len(src)

\* the index entry of frame i is cut, or (MPC) its frame header starts at or
\* after the cut
FrameBeyond(i) ==
    \/ FramePlace(i).entry_end > Len(src)
    \/ tool = "mpc" /\ FramePlace(i).data_at >= Len(src)

\* the bytes of the blob that entry i of the written file refers to
FrameData(m, i) ==
    LET e == Written(m).entries[i]
    IN Slice(Written(m).blob, e.data_offset, e.data_offset + e.data_length)

\* C6: when the frame index or the frame data of an ASF or MPC source is cut
\* short, the conversion still succeeds, the MSF header carries the declared
\* frame_count, the frame table has frame_count entries of 16 bytes (the end
\* sentinel follows them), a frame that lies before the cut has the entry
\* and the data it has when the uncut file is converted, and a frame whose
\* index entry or frame header lies beyond the cut is an empty entry.
C6_Truncation ==
    (pc = "done" /\ tool \in {"asf", "mpc"} /\ Len(src) < Len(full) /\ IsSome(msfFull))
        => /\ IsSome(msf)
           /\ Written(msf.val).ok
           /\ Written(msf.val).frame_count = SourceFrames
           /\ LET table_end == 28 + 4 * U16At(msf.val, 25) + FRAME_ENTRY_SIZE * SourceFrames
              IN Slice(msf.val, table_end, table_end + 4) = CHUNK_END
           /\ \A i \in 1..SourceFrames :
                 /\ FrameBefore(i) =>
                       /\ Written(msf.val).entries[i] = Written(msfFull.val).entries[i]
                       /\ FrameData(msf.val, i) = FrameData(msfFull.val, i)
                 /\ FrameBeyond(i) =>
                       /\ Written(msf.val).entries[i].width = 0
                       /\ Written(msf.val).entries[i].height = 0
                       /\ Written(msf.val).entries[i].data_length = 0


\* C4: for any MSF file F that decode_msf_frames decodes, with pixel format
\* P and palette Q: encoding the decoded canvases with encode_msf under the
\* same P and Q and decoding the result gives exactly the RGBA buffer of the
\* first decode.
C4_DecodeEncodeDecode ==
    (tool = "msf" /\ pc = "done" /\ IsSome(canvas))
        => /\ IsSome(msfE)
           /\ IsSome(canvas2)
           /\ canvas2.val.pixels = canvas.val.pixels


\* C7: every MSF decoder accepts a well-formed file whether its magic is
\* MSF1 or MSF2 (the verifier's decoder for the one pixel format it
\* implements, Indexed8Alpha8), the pixel decoding being chosen by the
\* pixel_format byte.
C7_EitherMagic ==
    (tool = "msf" /\ pc = "done")
        => /\ IsSome(hdr)
           /\ IsSome(canvas)
           /\ IsSome(indiv)
           /\ At(src, 24) = Indexed8Alpha8 => IsSome(vrfy)


\* the canvas pixels of frame i (1-based) that encode_msf is given for the
\* ASF in src, as (x, y) pairs with alpha > 0
CanvasContent(i) ==
    LET input == asf_to_msf_input(src).val
        w == input.hd.width
        pixels == input.frame_pixels[i]
    IN {<<p % w, p \div w>> : p \in {q \in DOMAIN pixels.px : pixels.px[q][4] > 0}}

\* C11: compute_tight_bbox returns (0,0,0,0) when no pixel of the canvas has
\* alpha > 0; otherwise the rectangle (min_x, min_y, width, height) it
\* returns contains every pixel with alpha > 0, and its first and last row
\* and its first and last column each hold such a pixel.  The rectangle is
\* read from the frame entry encode_msf stores it in.
C11_TightBbox ==
    (tool = "asf" /\ IsSome(msfE))
        => \A i \in 1..Written(msfE.val).frame_count :
              LET e == Written(msfE.val).entries[i]
                  content == CanvasContent(i)
              IN IF content = {}
                 THEN e.offset_x = 0 /\ e.offset_y = 0 /\ e.width = 0 /\ e.height = 0
                 ELSE /\ \A c \in content :
                            /\ e.offset_x <= c[1] /\ c[1] < e.offset_x + e.width
                            /\ e.offset_y <= c[2] /\ c[2] < e.offset_y + e.height
                      /\ \E c \in content : c[1] = e.offset_x
                      /\ \E c \in content : c[1] = e.offset_x + e.width - 1
                      /\ \E c \in content : c[2] = e.offset_y
                      /\ \E c \in content : c[2] = e.offset_y + e.height - 1


\* the offset the pixel blob starts at when every chunk other than END\0 is
\* stepped over by 8 + length bytes and the walk stops at the first END\0;
\* -1 when fewer than 8 bytes remain before an END id is found
RECURSIVE BlobStart(_, _)
BlobStart(data, off) ==
    IF off + 8 > Len(data) THEN -1
    ELSE IF Slice(data, off, off + 4) = CHUNK_END THEN off + 8
    ELSE IF At(data, off + 7) >= 128 \/ U32At(data, off + 4) > Len(data) THEN -1
    ELSE BlobStart(data, off + 8 + U32At(data, off + 4))

\* the file with its chunk area replaced by a plain end sentinel, the pixel
\* blob being the bytes from offset `start`
Unchunked(data, start) ==
    SubSeq(data, 1, TableEnd(data)) \o END_SENTINEL \o SliceFrom(data, start)

\* an MSF the engine decoders read up to the chunk area: MSF1, a known pixel
\* format, and a whole frame table
ReachesChunks(data) ==
    /\ Len(data) >= 28 /\ SubSeq(data, 1, 4) = MSF1
    /\ At(data, 24) \in {Rgba8, Indexed8, Indexed8Alpha8}
    /\ TableEnd(data) <= Len(data)

\* C12: after the frame table the decoders step over every chunk that is
\* not END\0 by 8 + length bytes, stop at the first END\0 and read the pixel
\* blob from the byte after the sentinel's 8 bytes, so that they return what
\* they return for the same file without the chunks; when fewer than 8
\* bytes remain before an END id is found they return 0 frames.
C12_ChunkWalk ==
    (tool = "msf" /\ pc = "done" /\ ReachesChunks(src))
        => LET start == BlobStart(src, TableEnd(src))
           IN IF start = -1 THEN canvas = None /\ indiv = None
              ELSE /\ canvas = decode_msf_frames(Unchunked(src, start))
                   /\ indiv = decode_msf_individual_frames(Unchunked(src, start))


\* C13: an MSF whose pixel_format byte is not 0, 1 or 2 is rejected by every
\* decoder: none of them returns frames for it.
C13_UnknownFormatRejected ==
    (tool = "msf" /\ pc = "done" /\ Len(src) >= 28
        /\ At(src, 24) \notin {Rgba8, Indexed8, Indexed8Alpha8})
        => /\ ~IsSome(canvas)
           /\ ~IsSome(indiv)
           /\ ~IsSome(vrfy)
           /\ ~IsSome(vrfy1)


\* the frames of the MPC in src (1-based) whose frame header is inside the
\* file and holds a width or height that is 0 or greater than 2048
OutOfRangeFrames ==
    LET frame_count == get_u32_le(src, 64 + 12)
        offsets_start == MPC_PALETTE_START + get_u32_le(src, 64 + 20) * 4
        ds(i) == offsets_start + frame_count * 4 + get_u32_le(src, offsets_start + 4 * (i - 1))
    IN {i \in 1..frame_count :
          /\ offsets_start + 4 * i <= Len(src)
          /\ ds(i) + 12 <= Len(src)
          /\ \/ get_u32_le(src, ds(i) + 4) = 0 \/ get_u32_le(src, ds(i) + 4) > 2048
             \/ get_u32_le(src, ds(i) + 8) = 0 \/ get_u32_le(src, ds(i) + 8) > 2048}

\* C14: a frame of an MPC whose header width or height is 0 or greater than
\* 2048 is an empty entry of the converted MSF and a 1x1 transparent tile
\* of the engine's and of the verifier's decoding of the MPC.
C14_OutOfRangeIsEmpty ==
    (tool = "mpc" /\ pc = "done")
        => \A i \in OutOfRangeFrames :
              /\ IsSome(msf) => [Written(msf.val).entries[i] EXCEPT !.data_offset = 0]
                                    = EmptyEntry
              /\ IsSome(engDec) => engDec.val.frames[i] = EmptyTile
              /\ IsSome(srcDec) => srcDec.val[i] = EmptyTile


\* the signature bytes of the MPC in src (fewer when the file is shorter)
MpcSignature == SubSeq(src, 1, Min2(12, Len(src)))

\* the statement that every input not beginning with "MPC File Ver" is
\* rejected by the engine and by the converter alike
C15_OnlyMpcSignature ==
    (tool = "mpc" /\ pc = "done" /\ (Len(src) < 160 \/ MpcSignature # MPC_SIG))
        => engHdr = None /\ engDec = None /\ msf = None

\* C15: parse_mpc_header, decode_mpc_frames and the MPC converter reject
\* every input shorter than 160 bytes; the converter rejects every input
\* whose first 12 bytes are not "MPC File Ver", and the two engine functions
\* reject every input whose first 12 bytes are neither "MPC File Ver" nor
\* "SHD File Ver".
C15_SignatureAndLength ==
    (tool = "mpc" /\ pc = "done")
        => /\ Len(src) < 160 => (engHdr = None /\ engDec = None /\ msf = None)
           /\ MpcSignature # MPC_SIG => msf = None
           /\ MpcSignature \notin {MPC_SIG, SHD_SIG} => (engHdr = None /\ engDec = None)

C15_Witness ==
    /\ tool = "mpc" /\ pc = "done"
    /\ Len(src) >= 160 /\ MpcSignature \notin {MPC_SIG, SHD_SIG}
    /\ engHdr = None /\ engDec = None /\ msf = None


\* an ASF the parsers take: at least 80 bytes that begin with "ASF 1.0"
AsfAccepted(data) == Len(data) >= 80 /\ SubSeq(data, 1, 7) = ASF_SIG

\* C16: parse_asf_header, decode_asf_frames and convert_asf_to_msf return
\* None / 0 frames at their length and signature tests for every input
\* shorter than 80 bytes and every input that does not begin with "ASF 1.0",
\* and none of them returns there for an input of at least 80 bytes that
\* begins with that signature.
C16_AsfSignatureAndLength ==
    (tool = "asf" /\ pc = "done")
        => IF AsfAccepted(src)
           THEN engHdr # None /\ engDec # None /\ msf # None
           ELSE engHdr = None /\ engDec = None /\ msf = None

C16_Witness ==
    /\ tool = "asf" /\ pc = "done"
    /\ AsfAccepted(src)
    /\ IsSome(engHdr) /\ IsSome(engDec) /\ IsSome(msf)


\* the whole (offset, length) entries the frame index of the ASF in src holds
IndexEntries ==
    asf_frame_index(src, 64 + 4 * asf_colors_read(src, get_i32_le(src, 32)),
                    get_i32_le(src, 24))

\* C17: on an ASF whose frame index holds fewer than frame_count entries
\* because the file is cut short, decode_asf_frames and the verifier's
\* decode_asf_to_rgba do not abort: they return the declared frame count,
\* the frames that have an index entry decoded, and the frames without one
\* as fully transparent canvases.
C17_TruncatedIndexDecodes ==
    (tool = "asf" /\ pc = "done" /\ AsfAccepted(src)
        /\ Len(IndexEntries) < get_i32_le(src, 24))
        => \A d \in {engDec, srcDec} :
              /\ IsSome(d)
              /\ d.val.frame_count = get_i32_le(src, 24)
              /\ \A i \in 1..d.val.frame_count :
                    d.val.frames[i] =
                        IF i <= Len(IndexEntries)
                        THEN decode_asf_rle_frame(src, asf_palette256(src, get_i32_le(src, 32)),
                                 IndexEntries[i].offset, IndexEntries[i].length,
                                 d.val.width, d.val.height,
                                 ZeroBuf(d.val.width * d.val.height))
                        ELSE ZeroBuf(d.val.width * d.val.height)


\* an MMF as its reader meets it: the header fields, the offset after the
\* MSF table and the trap table, and the tile blob after the end sentinel
MsfEntryEnd(m, off) == off + 1 + At(m, off) + 1
MsfEntryEnd4(m, off) == MsfEntryEnd(m, MsfEntryEnd(m, MsfEntryEnd(m, MsfEntryEnd(m, off))))
MsfEntryEnd16(m, off) == MsfEntryEnd4(m, MsfEntryEnd4(m, MsfEntryEnd4(m, MsfEntryEnd4(m, off))))
RECURSIVE MmfSkip(_, _, _, _)
MmfSkip(m, off, msf_left, trap_left) ==
    IF msf_left >= 16 THEN MmfSkip(m, MsfEntryEnd16(m, off), msf_left - 16, trap_left)
    ELSE IF msf_left > 0 THEN MmfSkip(m, MsfEntryEnd(m, off), msf_left - 1, trap_left)
    ELSE IF trap_left > 0 THEN MmfSkip(m, off + 1 + 2 + U16At(m, off + 1), 0, trap_left - 1)
    ELSE off
MmfRead(m) ==
    LET end == MmfSkip(m, 20, U16At(m, 12), U16At(m, 14))
    IN [columns |-> U16At(m, 8), rows |-> U16At(m, 10), msf_count |-> U16At(m, 12),
        sentinel |-> Slice(m, end, end + 8),
        blob |-> zstd_decompress(SliceFrom(m, end + 8)).val]

\* the populated slots (0-based) of the parsed MAP
Populated == {k \in 0..(MapSlots - 1) : oldMap.val.mpc_names[k + 1] # <<>>}

\* the new number the claim gives sprite byte k
Renumbered(k) ==
    IF k = 0 \/ (k - 1) \notin Populated THEN 0
    ELSE Cardinality({j \in Populated : j <= k - 1})

\* C18: the populated slots are numbered 1..N in increasing slot order with
\* N the msf_count of the header; in each of the three layers the sprite
\* byte k > 0 of a tile becomes the new number of slot k - 1, 0 stays 0 and
\* a byte that refers to an unpopulated slot becomes 0, so every sprite
\* byte is in 0..N; this for 0 to 255 populated slots.
C18_SpriteRenumbering ==
    (tool = "map" /\ pc = "done" /\ IsSome(oldMap))
        => /\ IsSome(mmf)
           /\ LET r == MmfRead(mmf.val)
                  tiles == oldMap.val.tiles
                  T == Len(tiles)
                  old(t) == <<tiles[t].l1_mpc, tiles[t].l2_mpc, tiles[t].l3_mpc>>
              IN /\ r.msf_count = Cardinality(Populated)
                 /\ \A t \in 1..T, layer \in 1..3 :
                       LET b == r.blob[(layer - 1) * 2 * T + 2 * (t - 1) + 1]
                       IN b = Renumbered(old(t)[layer]) /\ b \in 0..r.msf_count


\* C19: for every MAP parse_old_map accepts, the uncompressed tile blob of
\* the MMF has 8 x columns x rows bytes for the columns and rows of the MMF
\* header: three planes of (sprite index, frame) pairs, then the barrier
\* bytes, then the trap bytes, tile t at position t of each plane.
C19_BlobLayout ==
    (tool = "map" /\ pc = "done" /\ IsSome(oldMap) /\ IsSome(mmf))
        => LET r == MmfRead(mmf.val)
               n == r.columns * r.rows
               tiles == oldMap.val.tiles
               frames(t) == <<tiles[t].l1_frame, tiles[t].l2_frame, tiles[t].l3_frame>>
               sprites(t) == <<tiles[t].l1_mpc, tiles[t].l2_mpc, tiles[t].l3_mpc>>
           IN /\ r.sentinel = CHUNK_END \o <<0, 0, 0, 0>>
              /\ Len(r.blob) = 8 * n
              /\ \A t \in 1..Len(tiles) :
                    /\ \A layer \in 1..3 :
                          /\ r.blob[(layer - 1) * 2 * n + 2 * (t - 1) + 1]
                                 = Renumbered(sprites(t)[layer])
                          /\ r.blob[(layer - 1) * 2 * n + 2 * (t - 1) + 2] = frames(t)[layer]
                    /\ r.blob[6 * n + t] = tiles[t].barrier
                    /\ r.blob[7 * n + t] = tiles[t].trap


\* C20: each command-line tool ends with exit code 1 when at least one file
\* failed (read, convert, write or verification failure) and with exit code
\* 0 only when every file succeeded; a usage error ends with exit code 1.
\* Runs that a panic aborted are left aside.
C20_ExitCode ==
    (pc = "exited" /\ run.val.code # -1)
        => /\ run.val.failed > 0 => run.val.code = 1
           /\ run.val.fault = "usage" => run.val.code = 1
           /\ run.val.code = 0 => run.val.failed = 0


\* a 32-bit word (values from 2^31 up written as value - 2^32) as its two
\* 16-bit halves
WideOfWord(s) ==
    IF s >= 0 THEN WideOf(s)
    ELSE LET t == (s + 2147483647) + 1
         IN [hi |-> t \div 65536 + 32768, lo |-> t % 65536]

\* 4 x width x height of an entry (4 for an empty one), not reduced
ExactBytes(e) ==
    IF e.width = 0 \/ e.height = 0 THEN WideOf(4)
    ELSE LET n == WideOf(e.width * e.height)
         IN [hi |-> n.hi * 4 + (n.lo * 4) \div 65536, lo |-> (n.lo * 4) % 65536]

RECURSIVE ExactOffset(_, _)
\* the sum of ExactBytes over the entries before entry i
ExactOffset(entries, i) ==
    IF i = 1 THEN WideOf(0)
    ELSE WideAdd(ExactOffset(entries, i - 1), ExactBytes(entries[i - 1]))

\* C21: decode_msf_individual_frames reports for frame i the (width, height)
\* of its table entry, or (1,1) with a single transparent pixel when the
\* entry's width or height is 0, and a byte offset equal to the sum over all
\* earlier frames of 4 x width x height (4 for an empty frame); the number
\* of RGBA bytes it produces equals total_individual_pixel_bytes of
\* parse_msf_header for the same file.
C21_IndividualLayout ==
    (tool \in {"msf", "engine"} /\ pc = "done" /\ IsSome(hdr) /\ IsSome(indiv))
        => LET entries == Written(src).entries
           IN /\ \A i \in 1..indiv.val.count :
                    /\ indiv.val.frame_sizes[i] =
                           (IF IsEmptyEntry(entries[i]) THEN <<1, 1>>
                            ELSE <<entries[i].width, entries[i].height>>)
                    /\ IsEmptyEntry(entries[i]) => indiv.val.frames[i] = ZeroBuf(1)
                    /\ WideOfWord(indiv.val.frame_offsets[i]) = ExactOffset(entries, i)
              /\ indiv.val.total_pixel_bytes = hdr.val.total_individual_pixel_bytes


\* the statement that frames_per_direction is frame_count / max(directions, 1)
\* for every frame_count and directions of an accepted MSF or ASF header
C22_PlainQuotient ==
    /\ (tool \in {"msf", "engine"} /\ IsSome(hdr))
          => hdr.val.frames_per_direction = U16At(src, 12) \div Max2(At(src, 14), 1)
    /\ (tool = "asf" /\ IsSome(engHdr) /\ get_i32_le(src, 24) >= 0
            /\ get_i32_le(src, 28) >= 0)
          => engHdr.val.frames_per_direction
                 = get_i32_le(src, 24) \div Max2(get_i32_le(src, 28), 1)

\* C22: parse_msf_header and parse_asf_header report frames_per_direction =
\* max(frame_count / max(directions, 1), 1) (integer division, on the
\* unsigned values of the fields), including frame_count = 0 and
\* frame_count < directions, where the result is 1.
C22_ClampedQuotient ==
    /\ (tool \in {"msf", "engine"} /\ IsSome(hdr))
          => hdr.val.frames_per_direction
                 = Max2(U16At(src, 12) \div Max2(At(src, 14), 1), 1)
    /\ (tool = "asf" /\ IsSome(engHdr) /\ get_i32_le(src, 24) >= 0)
          => engHdr.val.frames_per_direction
                 = (IF get_i32_le(src, 28) < 0 THEN 1
                    ELSE Max2(get_i32_le(src, 24) \div Max2(get_i32_le(src, 28), 1), 1))

\* a header with fewer frames than directions has been read
C22_Witness ==
    /\ tool = "engine" /\ pc = "done" /\ IsSome(hdr)
    /\ U16At(src, 12) < At(src, 14)
    /\ hdr.val.frames_per_direction = 1


\* the points of a flat path
PathPoints(path) == [k \in 1..(Len(path) \div 2) |-> Vec2(path[2 * k - 1], path[2 * k])]

PathDone(types) == IsSome(pf) /\ pf.val.phase = "done" /\ pf.val.path_type \in types

\* C23: for SimpleMaxNpcTry, PerfectMaxNpcTry and PerfectMaxPlayerTry and a
\* start tile that is not an obstacle, every non-empty path find_path returns
\* has an even number of coordinates, begins at start, ends at end, moves by
\* at most 1 in x and in y between consecutive points, and holds no tile that
\* is an obstacle or outside the map.
C23_ValidPath ==
    (/\ PathDone({"SimpleMaxNpcTry", "PerfectMaxNpcTry", "PerfectMaxPlayerTry"})
     /\ ~is_obstacle(pf.val.map, pf.val.start)
     /\ pf.val.path # <<>>)
        => LET path == pf.val.path
               points == PathPoints(path)
               n == Len(points)
           IN  /\ Len(path) % 2 = 0
               /\ points[1] = pf.val.start
               /\ points[n] = pf.val.end
               /\ \A k \in 1..(n - 1) :
                     /\ points[k + 1].x - points[k].x \in {-1, 0, 1}
                     /\ points[k + 1].y - points[k].y \in {-1, 0, 1}
               /\ \A k \in 1..n :
                     /\ points[k].x \in 0..(pf.val.map.map_width - 1)
                     /\ points[k].y \in 0..(pf.val.map.map_height - 1)
                     /\ ~is_obstacle(pf.val.map, points[k])

\* a search that had to go around an obstacle lying between start and end
C23_Witness ==
    /\ PathDone({"PerfectMaxNpcTry"})
    /\ pf.val.start = Vec2(0, 0)
    /\ pf.val.end = Vec2(3, 2)
    /\ is_obstacle(pf.val.map, Vec2(2, 1))
    /\ Len(pf.val.path) >= 8


StraightPath(q) ==
    LET points == PathPoints(q.path)
        n == Len(points)
    IN  /\ q.path # <<>>
        /\ Len(q.path) % 2 = 0
        /\ points[1] = q.start
        /\ points[n] = q.end
        /\ \A k \in 1..(n - 1) :
              /\ points[k + 1].x = points[k].x + signum(q.end.x - points[k].x)
              /\ points[k + 1].y = points[k].y + signum(q.end.y - points[k].y)

Colliding(s) ==
    {p \in (DOMAIN s.entities) \X (DOMAIN s.entities) :
        /\ p[1] < p[2]
        /\ LET a == s.entities[p[1]]
               b == s.entities[p[2]]
           IN  (b.x - a.x) * (b.x - a.x) + (b.y - a.y) * (b.y - a.y)
                  <= (a.radius + b.radius) * (a.radius + b.radius)}

\* the pairs of a flat list id1, id2, id3, id4, ..., smaller id first
ReportedPairs(out) ==
    [k \in 1..(Len(out) \div 2) |->
        <<Min2(out[2 * k - 1], out[2 * k]), Max2(out[2 * k - 1], out[2 * k])>>]

\* C26: detect_all_collisions reports every unordered pair of stored entities
\* whose squared centre distance is at most (r1 + r2) squared, each such pair
\* exactly once, and no other pair, for every cell size, position and radius.
C26_AllCollisions ==
    (IsSome(sh) /\ IsSome(sh.val.collisions))
        => LET pairs == ReportedPairs(sh.val.collisions.val)
           IN  /\ {pairs[k] : k \in DOMAIN pairs} = Colliding(sh.val.hash)
               /\ \A j, k \in DOMAIN pairs : pairs[j] = pairs[k] => j = k


\* C30: after any sequence of upsert, remove, batch_update_positions and
\* clear, every stored entity id is exactly once in the grid, in the cell of
\* its position; the grid holds no other id; and count() is the number of ids
\* upserted and not removed since the last clear.
C30_GridMatchesEntities ==
    IsSome(sh)
        => LET s == sh.val.hash
               places == {p \in (DOMAIN s.grid) \X (1..(Cardinality(EntityIds) + 1)) :
                             p[2] <= Len(s.grid[p[1]])}
           IN  /\ \A id \in DOMAIN s.entities :
                     /\ Cardinality({p \in places : s.grid[p[1]][p[2]] = id}) = 1
                     /\ \E p \in places :
                           /\ s.grid[p[1]][p[2]] = id
                           /\ p[1] = get_cell(s, s.entities[id].x, s.entities[id].y)
               /\ \A p \in places : s.grid[p[1]][p[2]] \in DOMAIN s.entities
               /\ \A cell \in DOMAIN s.grid : Len(s.grid[cell]) <= Cardinality(EntityIds)
               /\ count(s) = Cardinality(sh.val.upserted)
               /\ DOMAIN s.entities = sh.val.upserted

\* a hash in which entities were moved and removed: two stored entities in
\* different cells and a cell that was emptied
C30_Witness ==
    /\ IsSome(sh)
    /\ Cardinality(DOMAIN sh.val.hash.entities) = 2
    /\ \E cell \in DOMAIN sh.val.hash.grid : sh.val.hash.grid[cell] = <<>>
    /\ \E a, b \in DOMAIN sh.val.hash.grid :
          a # b /\ sh.val.hash.grid[a] # <<>> /\ sh.val.hash.grid[b] # <<>>
    /\ 3 \in DOMAIN sh.val.hash.entities
    /\ sh.val.hash.entities[3].x = -3


\* C27: decoding one ASF frame never reads a run header or a colour-index
\* byte at or beyond offset + length of that frame.
C27_ReadsInsideFrame ==
    (tool = "asf" /\ pc = "done" /\ IsSome(engDec))
        => LET color_count == get_i32_le(src, 32)
               frame_count == get_i32_le(src, 24)
               index == asf_frame_index(src, 64 + 4 * asf_colors_read(src, color_count),
                                        frame_count)
           IN  \A i \in 1..frame_count :
                  LET end == asf_rle_end(src, asf_palette256(src, color_count),
                                         index[i].offset, index[i].length,
                                         get_i32_le(src, 16), get_i32_le(src, 20))
                  IN  end = index[i].offset \/ end <= index[i].offset + index[i].length


\* C28: in decode_msf_frames, decoding frame i changes only bytes of frame
\* i's own canvas region, and only at pixels (offset_x + x, offset_y + y),
\* 0 <= x < width, 0 <= y < height, that lie inside the canvas.
C28_WritesInOwnRegion ==
    (tool = "msf" /\ IsSome(canvas))
        => LET f == msf_open(src, MSF1)
               frame_pixels == f.canvas_width * f.canvas_height
           IN  \A i \in 1..f.frame_count :
                  \A j \in c_written(f, i) :
                     LET e == f.entries[i]
                         x == e.offset_x + (j % e.width)
                         y == e.offset_y + (j \div e.width)
                         d == c_dst(f, i, j)
                         before == c_frames(f, i - 1)
                     IN  c_frame(f, i)[d] # (IF d \in DOMAIN before THEN before[d] ELSE ZeroPx)
                            => /\ (i - 1) * frame_pixels <= d
                               /\ d < i * frame_pixels
                               /\ 0 <= x /\ x < f.canvas_width
                               /\ 0 <= y /\ y < f.canvas_height


\* C29: the extension-chunk walk of the MSF decoders terminates on every
\* input, also for chunk lengths up to 2^32 - 1 with a 32-bit offset: it
\* reaches an END id, or fewer than 8 bytes remain and it returns 0 (a walk
\* that ends in a panic has ended too).
C29_WalkTerminates == <>(IsSome(walk) /\ walk.val.status # "walking")


====
